---- MODULE Spec2Model ----
(***************************************************************************)
(* A model of the launchy canvas layer: the Canvas trait's default         *)
(* operations, the generic DeviceCanvas adapter with the classic-protocol  *)
(* device specs (original controller, Mini, Launchpad S), the MockCanvas   *)
(* and PaddingCanvas variants, and the CanvasLayout composition layer.     *)
(***************************************************************************)
EXTENDS Integers, Sequences, FiniteSets, TLC

VARIABLES
    kind,         \* which Canvas implementation the host holds
    curr_state,   \* DeviceCanvas.curr_state (displayed colors)
    new_state,    \* DeviceCanvas.new_state (pending colors)
    curr_buf,     \* MockCanvas / PaddingCanvas curr_buf
    new_buf,      \* MockCanvas / PaddingCanvas new_buf
    leds,         \* the device: the 2-bit (red, green) pair each LED shows
    cursor,       \* the device: rapid-update cursor (0 = top left of the grid)
    send_failed,  \* some MIDI send has returned an error so far
    panicked,     \* the process has aborted with a fatal error
    last,         \* the last operation called and its result
    devices,      \* CanvasLayout.devices
    coordinate_map, \* CanvasLayout.coordinate_map: global coordinate -> Pixel
    log,          \* what the last CanvasLayout::flush did to its devices, in order
    trip,         \* a coordinate on its way local -> global -> local
    port,         \* a polling input connection: wire, channel and consumer
    call,         \* a driver function called with one input, and what it returned
    mk2,          \* a Launchpad MK2 output: the device's layout register and the handle held
    game          \* the Minesweeper example: its State, hold timers and mine generation

vars == << kind, curr_state, new_state, curr_buf, new_buf, leds, cursor,
           send_failed, panicked, last, devices, coordinate_map, log, trip,
           port, call, mk2, game >>

\* The state of the canvas layer
canvas_vars == << kind, curr_state, new_state, curr_buf, new_buf, leds, cursor,
                  send_failed, panicked, last, devices, coordinate_map, log, trip >>

----------------------------------------------------------------------------
(* Colors: f32 components are fractions over Unit (Unit stands for 1.0).   *)

Unit == 64

MkColor(r, g, b) == [r |-> r, g |-> g, b |-> b]

BLACK == MkColor(0, 0, 0)
RED == MkColor(Unit, 0, 0)
GREEN == MkColor(0, Unit, 0)

\* A color whose every component quantizes to 0 at COLOR_PRECISION levels
FAINT == MkColor(Unit \div 8, 0, 0)

\* The colors the host writes to single pads, and paints whole canvases with
ColorInputs == { BLACK, RED, FAINT }

PaintInputs == { GREEN }

Max(a, b) == IF a >= b THEN a ELSE b
Min(a, b) == IF a <= b THEN a ELSE b

\* A clamp that clips every component to 0..=1 without scaling by the highest
Clamp_clip_only(c) ==
    LET clip(n) == IF n < 0 THEN 0 ELSE IF n > Unit THEN Unit ELSE n
    IN  [r |-> clip(c.r), g |-> clip(c.g), b |-> clip(c.b), den |-> Unit]

\* Color::clamp. The result's components are fractions over .den: when the
\* highest component exceeds 1.0 every component is multiplied by
\* 1/highest, then each is clipped to 0..=1.
Clamp(c) ==
    LET highest_component == CHOOSE m \in { c.r, c.g, c.b } :
                                 m >= c.r /\ m >= c.g /\ m >= c.b
        clip(n, den) == IF n < 0 THEN 0 ELSE IF n > den THEN den ELSE n
    IN  CHOOSE clamped \in
            { [r |-> clip(c.r, den), g |-> clip(c.g, den), b |-> clip(c.b, den),
               den |-> den] :
              den \in { IF highest_component > Unit THEN highest_component ELSE Unit } } :
            TRUE

\* Color::quantize: u8::min((c * range) as u8, range - 1) per component
Quantize(c, range) ==
    LET quantize_component(n, den) ==
            IF (n * range) \div den < range - 1 THEN (n * range) \div den
            ELSE range - 1
    IN  CHOOSE q \in
            { << quantize_component(cl.r, cl.den), quantize_component(cl.g, cl.den),
                 quantize_component(cl.b, cl.den) >> :
              cl \in { Clamp(c) } } :
            TRUE

----------------------------------------------------------------------------
(* Option<T>                                                               *)

None == << >>
Some(v) == << v >>

----------------------------------------------------------------------------
(* The classic 9x9 device specs                                            *)

BOUNDING_BOX_WIDTH == 9
BOUNDING_BOX_HEIGHT == 9
COLOR_PRECISION == 4

\* color.quantize(COLOR_PRECISION), computed once for the colors the host uses
QuantizedInputs ==
    [c \in ColorInputs \cup PaintInputs |-> Quantize(c, COLOR_PRECISION)]

quantize_P(color) ==
    IF color \in DOMAIN QuantizedInputs THEN QuantizedInputs[color]
    ELSE Quantize(color, COLOR_PRECISION)

DeviceKinds == {"midi1", "mini", "s"}

\* Spec::is_valid, identical in the three classic device specs
\* A validity test that forgets the missing top right cell
Spec_is_valid_whole_box(x, y) == x <= 8 /\ y <= 8

Spec_is_valid(x, y) ==
    IF x > 8 \/ y > 8 THEN FALSE
    ELSE IF x = 8 /\ y = 0 THEN FALSE
    ELSE TRUE

\* The cells of an Array2d of the given size (util::Array2d::is_valid)
Array2dCells(width, height) == (0 .. width - 1) \X (0 .. height - 1)

Cells == Array2dCells(BOUNDING_BOX_WIDTH, BOUNDING_BOX_HEIGHT)

\* Array2d::new: every cell holds Color::default()
Array2d_new(width, height) == [c \in Array2dCells(width, height) |-> BLACK]

----------------------------------------------------------------------------
(* The classic protocol: double-buffering colors, buttons, wire messages   *)

\* A panic! or a failed assert! in place of a value
Fatal == [t |-> "panic"]

\* protocols::double_buffering::Color::new: red < 4 and green < 4 are asserted
\* (the canvas only passes components quantized to COLOR_PRECISION levels)
Color_new(red, green) ==
    IF red < 4 /\ green < 4 THEN [red |-> red, green |-> green] ELSE Fatal

\* DoubleBufferingBehavior as the code make_color_code gives it
DBB_None == 0
DBB_Copy == 1
DBB_Clear == 2

\* make_color_code with the two colors' places exchanged
make_color_code_swapped(color, dbb) == color.red * 16 + dbb * 4 + color.green

\* make_color_code: (green << 4) | (double_buffering_code << 2) | red; the
\* three fields occupy disjoint bits, so the bit-or is a sum
make_color_code(color, dbb) == color.green * 16 + dbb * 4 + color.red

ControlButton(index) == [t |-> "ControlButton", index |-> index]
GridButton(x, y) == [t |-> "GridButton", x |-> x, y |-> y]

\* A failed assert! or a panic! in place of a button
PanicButton == [t |-> "panic"]
\* Option::None in place of a button
NoButton == [t |-> "None"]

\* Button80::from_abs
from_abs(x, y) ==
    IF y = 0 THEN (IF x <= 7 THEN ControlButton(x) ELSE PanicButton)
    ELSE IF y \in 1 .. 8 THEN (IF x <= 8 THEN GridButton(x, y - 1) ELSE PanicButton)
    ELSE PanicButton

\* shared::default_physical_to_logical::<Spec>: None for an invalid slot, a
\* panic! for a control slot with x >= 7
default_physical_to_logical(x, y) ==
    IF ~Spec_is_valid(x, y) THEN NoButton
    ELSE IF y = 0 THEN (IF x < 7 THEN ControlButton(x) ELSE PanicButton)
    ELSE IF y \in 1 .. 8 THEN (IF x <= 8 THEN GridButton(x, y - 1) ELSE PanicButton)
    ELSE NoButton

\* Output::set_button: the bytes sent for one LED
set_button(button, color, d) ==
    IF button.t = "GridButton"
    THEN << 144, button.y * 16 + button.x, make_color_code(color, d) >>
    ELSE << 176, 104 + button.index, make_color_code(color, d) >>

\* Output::light = set_button(button, color, Copy)
light(button, color) == set_button(button, color, DBB_Copy)

\* The status byte each driver's set_button_rapid sends
RapidStatus(k) == IF k = "mini" THEN 146 ELSE 178

\* Output::set_button_rapid
set_button_rapid(k, color1, dbb1, color2, dbb2) ==
    << RapidStatus(k), make_color_code(color1, dbb1), make_color_code(color2, dbb2) >>

----------------------------------------------------------------------------
(* The device, as the drivers' documentation describes it: a light message *)
(* sets one LED; rapid-update messages set two LEDs each, walking the 8x8  *)
(* grid left to right and top to bottom, then the scene launch buttons top *)
(* to bottom, then the Automap/Live buttons left to right; overflowing     *)
(* data is ignored; any other message resets the cursor.                   *)

ValidPads == { c \in Cells : Spec_is_valid(c[1], c[2]) }

ScanOrder ==
    [i \in 1 .. 64 |-> << (i - 1) % 8, 1 + ((i - 1) \div 8) >>]
    \o [i \in 1 .. 8 |-> << 8, i >>]
    \o [i \in 1 .. 8 |-> << i - 1, 0 >>]

DecodeColorCode(code) == << code % 4, (code \div 16) % 4 >>

DeviceReset == [leds |-> [p \in ValidPads |-> << 0, 0 >>], cursor |-> 0]

\* The device after one message
DeviceApply(k, dev, msg) ==
    IF msg[1] = RapidStatus(k) THEN
        LET put(l, i, code) ==
                IF i <= Len(ScanOrder)
                THEN [l EXCEPT ![ScanOrder[i]] = DecodeColorCode(code)]
                ELSE l
        IN  [leds |-> put(put(dev.leds, dev.cursor + 1, msg[2]), dev.cursor + 2, msg[3]),
             cursor |-> Min(dev.cursor + 2, Len(ScanOrder))]
    ELSE IF msg[1] = 144 THEN
        LET x == msg[2] % 16
            y == msg[2] \div 16
        IN  [leds |-> IF x <= 8 /\ y <= 7
                      THEN [dev.leds EXCEPT ![<< x, y + 1 >>] = DecodeColorCode(msg[3])]
                      ELSE dev.leds,
             cursor |-> 0]
    ELSE IF msg[1] = 176 /\ msg[2] \in 104 .. 111 THEN
        [leds |-> [dev.leds EXCEPT ![<< msg[2] - 104, 0 >>] = DecodeColorCode(msg[3])],
         cursor |-> 0]
    ELSE IF msg[1] = 176 /\ msg[2] = 0 /\ msg[3] = 0 THEN DeviceReset
    ELSE [dev EXCEPT !.cursor = 0]

\* The device after the messages lo .. hi of a wire, applied in order
RECURSIVE DeviceApplyRange(_, _, _, _, _)
DeviceApplyRange(k, dev, wire, lo, hi) ==
    IF lo > hi THEN dev
    ELSE IF lo = hi THEN DeviceApply(k, dev, wire[lo])
    ELSE LET mid == (lo + hi) \div 2
             first == DeviceApplyRange(k, dev, wire, lo, mid)
         IN  IF first.cursor >= 0
             THEN DeviceApplyRange(k, first, wire, mid + 1, hi)
             ELSE first

\* The device after every message of a wire
DeviceApplyAll(k, dev, wire) == DeviceApplyRange(k, dev, wire, 1, Len(wire))

----------------------------------------------------------------------------
(* CanvasLayout: rotations, coordinate translation, brightness transform   *)

\* u32 and i32 values wrap modulo Wrap. The model checker's integers end at 2^31 - 1, so
\* the 32-bit words are modelled 30 bits wide; `as u32` and `as i32` are the
\* two ways of reading a word.
Wrap == 2 ^ 30

as_u32(n) == n % Wrap
as_i32(n) == ((n + Wrap \div 2) % Wrap) - Wrap \div 2

Rotations == { "None", "Left", "Right", "UpsideDown" }

\* impl Neg for Rotation
Rotation_neg(rot) ==
    CASE rot = "None" -> "None"
      [] rot = "UpsideDown" -> "UpsideDown"
      [] rot = "Left" -> "Right"
      [] rot = "Right" -> "Left"

\* A translate that turns Left the way Right turns
Rotation_translate_one_way(rot, x, y) ==
    CASE rot = "None" -> << x, y >>
      [] rot = "UpsideDown" -> << as_i32(-x), as_i32(-y) >>
      [] rot = "Left" -> << y, as_i32(-x) >>
      [] rot = "Right" -> << y, as_i32(-x) >>

\* Rotation::translate, on i32
Rotation_translate(rot, x, y) ==
    CASE rot = "None" -> << x, y >>
      [] rot = "UpsideDown" -> << as_i32(-x), as_i32(-y) >>
      [] rot = "Left" -> << as_i32(-y), x >>
      [] rot = "Right" -> << y, as_i32(-x) >>

\* to_local(x, y, rot, x_offset, y_offset)
to_local(x, y, rot, x_offset, y_offset) ==
    LET t == Rotation_translate(Rotation_neg(rot),
                                as_i32(as_i32(x) - as_i32(x_offset)),
                                as_i32(as_i32(y) - as_i32(y_offset)))
    IN  << as_u32(t[1]), as_u32(t[2]) >>

\* to_global(x, y, rot, x_offset, y_offset)
to_global(x, y, rot, x_offset, y_offset) ==
    LET t == Rotation_translate(rot, as_i32(x), as_i32(y))
    IN  << as_u32(as_i32(t[1] + as_i32(x_offset))),
           as_u32(as_i32(t[2] + as_i32(y_offset))) >>

\* to_global's additions leave the i32 range: a build with overflow checks
\* panics there, a build without them wraps
i32_fits(n) == n >= -(Wrap \div 2) /\ n < Wrap \div 2

to_global_overflows(x, y, rot, x_offset, y_offset) ==
    \E t \in { Rotation_translate(rot, as_i32(x), as_i32(y)) } :
        \/ ~i32_fits(t[1] + as_i32(x_offset))
        \/ ~i32_fits(t[2] + as_i32(y_offset))

\* CanvasLayout::new: light_threshold: 1.0 / 4.0
light_threshold == Unit \div 4

\* MockCanvas::lowest_visible_brightness: 1.0 / 64.0
Mock_lowest_visible_brightness == Unit \div 64

\* transform_color: (color - 1.0) * (1.0 - target) / (1.0 - source) + 1.0,
\* per component; exact for the components the host writes (0 and 1.0)
transform_color(color, source, target) ==
    LET component(n) == ((n - Unit) * (Unit - target)) \div (Unit - source) + Unit
    IN  MkColor(component(color.r), component(color.g), component(color.b))

\* Pixel { device_index, color_new, color_old }
Pixel(device_index, color_new, color_old) ==
    [device_index |-> device_index, color_new |-> color_new, color_old |-> color_old]

\* A MockCanvas of the given size, nothing written to it yet
MockCanvas_new(width, height) ==
    [width |-> width, height |-> height,
     curr_buf |-> Array2d_new(width, height),
     new_buf |-> Array2d_new(width, height)]

\* LayoutDevice { canvas, rotation, x, y }
LayoutDevice(canvas, rotation, x, y) ==
    [canvas |-> canvas, rotation |-> rotation, x |-> x, y |-> y]

\* The largest of a set of naturals, 0 for the empty set (max().unwrap_or(0))
MaxOr0(S) == IF S = {} THEN 0 ELSE CHOOSE m \in S : \A n \in S : m >= n

\* CanvasLayout::bounding_box_width / bounding_box_height
Layout_bounding_box_width ==
    MaxOr0({ devices[i].x + devices[i].canvas.width : i \in DOMAIN devices })

Layout_bounding_box_height ==
    MaxOr0({ devices[i].y + devices[i].canvas.height : i \in DOMAIN devices })


\* MockCanvas::new(MockWidth, MockHeight)
MockWidth == 8
MockHeight == 8

\* The canvases of the single-canvas host; the composed one is "layout"
CanvasKinds == DeviceKinds \cup {"mock", "padded"}

\* The DeviceSpec behind a canvas: PaddingCanvas wraps the original
\* controller's DeviceCanvas
DeviceOf(k) == IF k = "padded" THEN "midi1" ELSE k

HasDevice(k) == k \in DeviceKinds \cup {"padded"}

\* Canvas::bounding_box_width / bounding_box_height
bounding_box_width(k) ==
    CASE k = "mock" -> MockWidth
      [] k = "layout" -> Layout_bounding_box_width
      [] OTHER -> BOUNDING_BOX_WIDTH

bounding_box_height(k) ==
    CASE k = "mock" -> MockHeight
      [] k = "layout" -> Layout_bounding_box_height
      [] OTHER -> BOUNDING_BOX_HEIGHT

\* Canvas::is_valid. DeviceCanvas asks its Spec; MockCanvas has a color
\* wherever its Array2d has a cell; PaddingCanvas has one wherever the
\* inner canvas or its own Array2d has.
is_valid(k, x, y) ==
    CASE k \in DeviceKinds -> Spec_is_valid(x, y)
      [] k = "mock" -> << x, y >> \in Array2dCells(MockWidth, MockHeight)
      [] k = "padded" -> Spec_is_valid(x, y)
                         \/ << x, y >> \in Array2dCells(BOUNDING_BOX_WIDTH, BOUNDING_BOX_HEIGHT)
      [] k = "layout" -> << x, y >> \in DOMAIN coordinate_map

\* A displayed-color read that looks into the pending buffers
get_old_from_pending(k, x, y) ==
    CASE k \in DeviceKinds -> new_state[<< x, y >>]
      [] k = "mock" -> new_buf[<< x, y >>]
      [] k = "padded" -> IF x = 8 /\ y = 0 THEN new_buf[<< x, y >>]
                         ELSE new_state[<< x, y >>]
      [] k = "layout" -> coordinate_map[<< x, y >>].color_new

\* Canvas::get_old_unchecked_ref: the displayed color
get_old_unchecked_ref(k, x, y) ==
    CASE k \in DeviceKinds -> curr_state[<< x, y >>]
      [] k = "mock" -> curr_buf[<< x, y >>]
      [] k = "padded" -> IF Spec_is_valid(x, y) THEN curr_state[<< x, y >>]
                         ELSE curr_buf[<< x, y >>]
      [] k = "layout" -> coordinate_map[<< x, y >>].color_old

\* Canvas::get_new_unchecked_ref: the pending color
get_new_unchecked_ref(k, x, y) ==
    CASE k \in DeviceKinds -> new_state[<< x, y >>]
      [] k = "mock" -> new_buf[<< x, y >>]
      [] k = "padded" -> IF Spec_is_valid(x, y) THEN new_state[<< x, y >>]
                         ELSE new_buf[<< x, y >>]
      [] k = "layout" -> coordinate_map[<< x, y >>].color_new

\* The pending colors a canvas holds: in new_state, in new_buf, or in the
\* color_new of the layout's pixels
Pending == [new_state |-> new_state, new_buf |-> new_buf,
            coordinate_map |-> coordinate_map]

\* Canvas::set_unchecked through get_new_unchecked_mut: the pending colors
\* w after the write
set_unchecked(k, w, x, y, color) ==
    CASE k \in DeviceKinds \/ (k = "padded" /\ Spec_is_valid(x, y)) ->
            [w EXCEPT !.new_state[<< x, y >>] = color]
      [] k = "layout" ->
            [w EXCEPT !.coordinate_map[<< x, y >>].color_new = color]
      [] OTHER ->
            [w EXCEPT !.new_buf[<< x, y >>] = color]

Pad(x, y) == [x |-> x, y |-> y]

\* The bounds check shared by Canvas::get, get_new, get_mut
InBounds(k, pad) == pad.x >= 0 /\ pad.y >= 0 /\ is_valid(k, pad.x, pad.y)

\* Canvas::get: the displayed color, None if out of bounds
get(k, pad) ==
    IF InBounds(k, pad) THEN Some(get_old_unchecked_ref(k, pad.x, pad.y)) ELSE None

\* Canvas::get_new: the pending color, None if out of bounds
get_new(k, pad) ==
    IF InBounds(k, pad) THEN Some(get_new_unchecked_ref(k, pad.x, pad.y)) ELSE None

\* An iterator that scans the bounding box column by column
CanvasIterator_column_major(k) ==
    SelectSeq([i \in 1 .. bounding_box_width(k) * bounding_box_height(k) |->
                  << (i - 1) \div bounding_box_height(k), (i - 1) % bounding_box_height(k) >>],
              LAMBDA c : c # << 8, 0 >> \/ k \notin DeviceKinds)

\* CanvasIterator::new: the valid cells of the bounding box, y outer, x inner
CanvasIterator_new(k) ==
    LET bb_height == bounding_box_height(k)
        bb_width == bounding_box_width(k)
        coordinates == [i \in 1 .. bb_width * bb_height |->
                            << (i - 1) % bb_width, (i - 1) \div bb_width >>]
    IN  SelectSeq(coordinates, LAMBDA c : is_valid(k, c[1], c[2]))

----------------------------------------------------------------------------
(* Spec::flush of the classic device specs                                 *)

\* convert_color: quantize to COLOR_PRECISION levels, keep red and green
convert_color(color) ==
    CHOOSE converted \in { Color_new(q[1], q[2]) : q \in { quantize_P(color) } } : TRUE

\* The number of changes above which Spec::flush re-streams the canvas
RapidThreshold(k) == IF k = "s" THEN 41 ELSE 40

\* The rapid-update branch of Spec::flush: the main body, then (original
\* controller and Mini only) the scene launch buttons and the Automap/Live
\* buttons, then the dummy light of control button 0
RapidBranch(k, pending) ==
    LET pair(a, b) == set_button_rapid(k, convert_color(pending[a]), DBB_Copy,
                                          convert_color(pending[b]), DBB_Copy)
        body == [i \in 1 .. 32 |->
                    LET y == 1 + ((i - 1) \div 4)
                        x == 2 * ((i - 1) % 4)
                    IN  pair(<< x, y >>, << x + 1, y >>)]
        scene == [i \in 1 .. 4 |-> pair(<< 8, 2 * i - 1 >>, << 8, 2 * i >>)]
        live == [i \in 1 .. 4 |-> pair(<< 2 * (i - 1), 0 >>, << 2 * (i - 1) + 1, 0 >>)]
        dummy == << light(ControlButton(0), convert_color(pending[<< 0, 0 >>])) >>
    IN  body \o (IF k = "s" THEN << >> ELSE scene \o live) \o dummy

\* The button Spec::flush lights for a changed cell
ChangedButton(k, x, y) ==
    IF k = "mini" THEN default_physical_to_logical(x, y) ELSE from_abs(x, y)

\* The per-cell branch of Spec::flush: the messages sent, in order, and
\* whether the loop then ends in a panic
LightEach(k, changes) ==
    LET button(i) == ChangedButton(k, changes[i][1], changes[i][2])
        fatal == { i \in 1 .. Len(changes) : button(i).t = "panic" }
        stop == IF fatal = {} THEN Len(changes) + 1
                ELSE CHOOSE i \in fatal : \A j \in fatal : i <= j
        lit == SelectSeq([i \in 1 .. stop - 1 |-> i], LAMBDA i : button(i).t # "None")
    IN  [wire |-> [n \in 1 .. Len(lit) |->
                     light(button(lit[n]),
                           Color_new(changes[lit[n]][3][1], changes[lit[n]][3][2]))],
         panic |-> fatal # {}]

\* Spec::flush(canvas, changes), all sends succeeding
Spec_flush(k, pending, changes) ==
    IF Len(changes) > RapidThreshold(k)
    THEN [wire |-> RapidBranch(k, pending), panic |-> FALSE]
    ELSE LightEach(k, changes)

----------------------------------------------------------------------------
(* DeviceCanvas::flush                                                     *)

\* A change list that compares the colors before quantizing them
ChangeList_unquantized(k, curr, pending) ==
    LET differing == SelectSeq([i \in 1 .. 81 |-> << (i - 1) % 9, (i - 1) \div 9 >>],
                               LAMBDA c : c # << 8, 0 >> /\ pending[c] # curr[c])
    IN  [i \in 1 .. Len(differing) |->
            << differing[i][1], differing[i][2],
               Quantize(pending[differing[i]], COLOR_PRECISION) >>]

\* The change list: one entry per valid pad whose quantized pending color
\* differs from its quantized displayed color
ChangeList(k, curr, pending) ==
    LET differing == SelectSeq(CanvasIterator_new(k), LAMBDA c :
                        quantize_P(pending[c]) # quantize_P(curr[c]))
    IN  [i \in 1 .. Len(differing) |->
            << differing[i][1], differing[i][2],
               quantize_P(pending[differing[i]]) >>]

\* What Spec::flush does when the canvas has no changes: nothing
NoPlan == [wire |-> << >>, panic |-> FALSE]

\* The messages of a flush that reach the device when the fail_at-th send of
\* the call returns an error (0: every send succeeds)
Transmit(wire, fail_at) ==
    IF fail_at >= 1 /\ fail_at <= Len(wire)
    THEN [wire |-> SubSeq(wire, 1, fail_at - 1), failed |-> TRUE]
    ELSE [wire |-> wire, failed |-> FALSE]

----------------------------------------------------------------------------
(* The host program: pad writes, toggles, clears and flushes on one canvas *)

\* The pads the host addresses: the last Automap/Live button, the invalid
\* cell of the 9x9 box, a pad beyond the box, a pad with a negative coordinate
PadInputs == { Pad(7, 0), Pad(8, 0), Pad(9, 3), Pad(-1, 2) }


\* The most sends of one flush that the transport may fail at
MaxFailAt == 1

\* What the host last called and what it returned; for a flush also the
\* number of Spec::flush calls it made
Called(op, ret) == [op |-> op, ret |-> ret, calls |-> 0]

Init ==
    /\ kind \in CanvasKinds
    /\ curr_state = IF HasDevice(kind)
                    THEN Array2d_new(BOUNDING_BOX_WIDTH, BOUNDING_BOX_HEIGHT) ELSE << >>
    /\ new_state = curr_state
    /\ curr_buf = CASE kind = "mock" -> Array2d_new(MockWidth, MockHeight)
                    [] kind = "padded" -> Array2d_new(BOUNDING_BOX_WIDTH, BOUNDING_BOX_HEIGHT)
                    [] OTHER -> << >>
    /\ new_buf = curr_buf
    /\ leds = IF HasDevice(kind) THEN DeviceReset.leds ELSE << >>
    /\ cursor = 0
    /\ game = << >>
    /\ send_failed = FALSE
    /\ panicked = FALSE
    /\ last = Called("new", "Ok")
    /\ devices = << >>
    /\ coordinate_map = << >>
    /\ log = << >>
    /\ trip = << >>
    /\ port = << >>
    /\ call = << >>
    /\ mk2 = << >>

\* The host goes on: no panic has unwound it, and no flush has returned the
\* Err it propagates with ?
Running == ~panicked /\ ~send_failed

\* Canvas::set
Set(pad, color) ==
    /\ Running
    /\ \E ok \in { InBounds(kind, pad) } :
       \E w \in { IF ok THEN set_unchecked(kind, Pending, pad.x, pad.y, color)
                  ELSE Pending } :
           /\ new_state' = w.new_state
           /\ new_buf' = w.new_buf
           /\ coordinate_map' = w.coordinate_map
           /\ last' = Called("set", IF ok THEN "Some" ELSE "None")
    /\ UNCHANGED << kind, curr_state, curr_buf, leds, cursor, send_failed, panicked,
                    devices, log, trip, port, call, mk2, game >>

\* A toggle that never turns a pad off
ToggleColor_always(k, pad, color) == color

\* The color Canvas::toggle writes: BLACK if get(pad) is already the color
ToggleColor(k, pad, color) ==
    IF get(k, pad) = Some(color) THEN BLACK ELSE color

\* Canvas::toggle
Toggle(pad, color) ==
    /\ Running
    /\ \E ok \in { get(kind, pad) # None } :
       \E w \in { IF ok THEN set_unchecked(kind, Pending, pad.x, pad.y,
                                           ToggleColor(kind, pad, color))
                  ELSE Pending } :
           /\ new_state' = w.new_state
           /\ new_buf' = w.new_buf
           /\ coordinate_map' = w.coordinate_map
           /\ last' = Called("toggle", IF ok THEN "Some" ELSE "None")
    /\ UNCHANGED << kind, curr_state, curr_buf, leds, cursor, send_failed, panicked,
                    devices, log, trip, port, call, mk2, game >>

\* for pad in canvas.iter() { canvas[pad] = color }: the pending colors
\* after the loop
PaintAll(k, pads, w, color) ==
    LET painted == { pads[i] : i \in 1 .. Len(pads) }
        device(c) == k \in DeviceKinds \/ (k = "padded" /\ Spec_is_valid(c[1], c[2]))
    IN  [new_state |-> [c \in DOMAIN w.new_state |->
                          IF c \in painted /\ device(c) THEN color ELSE w.new_state[c]],
         new_buf |-> [c \in DOMAIN w.new_buf |->
                          IF c \in painted /\ ~device(c) THEN color ELSE w.new_buf[c]],
         coordinate_map |-> [c \in DOMAIN w.coordinate_map |->
                          IF c \in painted
                          THEN [w.coordinate_map[c] EXCEPT !.color_new = color]
                          ELSE w.coordinate_map[c]]]

\* Canvas::clear
Clear ==
    /\ Running
    /\ \E w \in { PaintAll(kind, CanvasIterator_new(kind), Pending, BLACK) } :
           /\ new_state' = w.new_state
           /\ new_buf' = w.new_buf
           /\ coordinate_map' = w.coordinate_map
    /\ last' = Called("clear", "Ok")
    /\ UNCHANGED << kind, curr_state, curr_buf, leds, cursor, send_failed, panicked,
                    devices, log, trip, port, call, mk2, game >>

\* The loop of Canvas::clear with another color, as in the documentation of
\* Canvas::iter ("to light the entire canvas white")
Paint(color) ==
    /\ Running
    /\ \E w \in { PaintAll(kind, CanvasIterator_new(kind), Pending, color) } :
           /\ new_state' = w.new_state
           /\ new_buf' = w.new_buf
           /\ coordinate_map' = w.coordinate_map
    /\ last' = Called("paint", "Ok")
    /\ UNCHANGED << kind, curr_state, curr_buf, leds, cursor, send_failed, panicked,
                    devices, log, trip, port, call, mk2, game >>

\* MockCanvas::flush
MockFlush ==
    /\ Running
    /\ kind = "mock"
    /\ curr_buf' = new_buf
    /\ last' = Called("flush", "Ok")
    /\ UNCHANGED << kind, curr_state, new_state, new_buf, leds, cursor,
                    send_failed, panicked, devices, coordinate_map, log, trip, port, call, mk2, game >>

\* DeviceCanvas::flush, and PaddingCanvas::flush, which copies its own
\* pending buffer and then flushes the inner DeviceCanvas. The fail_at-th
\* send of the call returns an error (0: every send succeeds).
Flush(fail_at) ==
    /\ Running
    /\ HasDevice(kind)
    /\ \E changes \in { ChangeList(DeviceOf(kind), curr_state, new_state) } :
       \E plan \in { IF changes # << >>
                     THEN Spec_flush(DeviceOf(kind), new_state, changes)
                     ELSE NoPlan } :
       \E sent \in { Transmit(plan.wire, fail_at) } :
       \E dev \in { DeviceApplyAll(DeviceOf(kind), [leds |-> leds, cursor |-> cursor],
                                   sent.wire) } :
       \E ret \in { IF sent.failed THEN "Err" ELSE IF plan.panic THEN "panic" ELSE "Ok" } :
           /\ curr_state' = IF ret = "Ok" THEN new_state ELSE curr_state
           /\ leds' = dev.leds
           /\ cursor' = dev.cursor
           /\ send_failed' = (send_failed \/ ret = "Err")
           /\ panicked' = (ret = "panic")
           /\ last' = [op |-> "flush", ret |-> ret,
                       calls |-> IF changes # << >> THEN 1 ELSE 0]
    /\ curr_buf' = IF kind = "padded" THEN new_buf ELSE curr_buf
    /\ UNCHANGED << kind, new_state, new_buf, devices, coordinate_map, log, trip, port, call, mk2, game >>

----------------------------------------------------------------------------
(* The host program with a CanvasLayout of MockCanvases                    *)

\* The size of the canvases the host adds to the layout
SubWidth == 2
SubHeight == 1

\* The most devices the host adds
MaxDevices == 2

\* The offsets the host places devices at
LayoutOffsets == { << 0, 0 >>, << 7, 0 >> }

\* The colors the host writes to the layout
LayoutColorInputs == { BLACK, RED }

\* The orders HashMap::iter_mut may visit a set of keys in
IterationOrders == { "ascending", "descending" }

Less(a, b) == a[1] < b[1] \/ (a[1] = b[1] /\ a[2] < b[2])

KeysInOrder(S, order) ==
    [i \in 1 .. Cardinality(S) |->
        CHOOSE c \in S :
            Cardinality({ d \in S : IF order = "ascending" THEN Less(d, c) ELSE Less(c, d) })
                = i - 1]

LayoutInit ==
    /\ kind = "layout"
    /\ curr_state = << >>
    /\ new_state = << >>
    /\ curr_buf = << >>
    /\ new_buf = << >>
    /\ leds = << >>
    /\ cursor = 0
    /\ game = << >>
    /\ send_failed = FALSE
    /\ panicked = FALSE
    /\ last = Called("new", "Ok")
    /\ devices = << >>
    /\ coordinate_map = << >>
    /\ log = << >>
    /\ trip = << >>
    /\ port = << >>
    /\ call = << >>
    /\ mk2 = << >>

\* canvas.iter() of a MockCanvas: every cell, row by row
MockPads(canvas) ==
    [i \in 1 .. canvas.width * canvas.height |->
        << (i - 1) % canvas.width, (i - 1) \div canvas.width >>]

\* An insertion loop that never looks at the value insert() returns
FirstOverlap_unchecked(cm, translated) == 0

\* The first pad of the loop of add() whose insert() returns an old value;
\* 0 if none does
FirstOverlap(cm, translated) ==
    LET overlapping == { i \in DOMAIN translated :
                            \/ translated[i] \in DOMAIN cm
                            \/ \E j \in 1 .. i - 1 : translated[j] = translated[i] }
    IN  IF overlapping = {} THEN 0
        ELSE CHOOSE i \in overlapping : \A j \in overlapping : i <= j

\* coordinate_map after the first n insert() calls of add()
Inserted(cm, canvas, pads, translated, index, n) ==
    [c \in DOMAIN cm \cup { translated[i] : i \in 1 .. n } |->
        IF \E i \in 1 .. n : translated[i] = c
        THEN LET i == CHOOSE i \in 1 .. n :
                          translated[i] = c /\ \A j \in 1 .. n : translated[j] = c => j <= i
             IN  Pixel(index, canvas.new_buf[pads[i]], canvas.curr_buf[pads[i]])
        ELSE cm[c]]

\* CanvasLayout::add(x_offset, y_offset, rotation, creator), the creator
\* returning a fresh MockCanvas (created) or an error
Add(x_offset, y_offset, rotation, created) ==
    /\ kind = "layout"
    /\ ~panicked
    /\ Len(devices) < MaxDevices
    /\ IF ~created
       THEN /\ last' = Called("add", "Err")
            /\ UNCHANGED << devices, coordinate_map, panicked >>
       ELSE \E canvas \in { MockCanvas_new(SubWidth, SubHeight) } :
            \E pads \in { MockPads(canvas) } :
            \E translated \in { [i \in DOMAIN pads |->
                                    to_global(pads[i][1], pads[i][2], rotation,
                                              x_offset, y_offset)] } :
            \E overlap \in { FirstOverlap(coordinate_map, translated) } :
                IF overlap = 0
                THEN /\ coordinate_map' = Inserted(coordinate_map, canvas, pads, translated,
                                                   Len(devices), Len(pads))
                     /\ devices' = Append(devices,
                                          LayoutDevice(canvas, rotation, x_offset, y_offset))
                     /\ last' = Called("add", "Ok")
                     /\ UNCHANGED panicked
                ELSE /\ coordinate_map' = Inserted(coordinate_map, canvas, pads, translated,
                                                   Len(devices), overlap)
                     /\ panicked' = TRUE
                     /\ last' = Called("add", "panic")
                     /\ UNCHANGED devices
    /\ UNCHANGED << kind, curr_state, new_state, curr_buf, new_buf, leds, cursor,
                    send_failed, log, trip, port, call, mk2, game >>

\* What CanvasLayout::flush does to a device's canvas
SetUnchecked(device, x, y, color) ==
    [t |-> "set_unchecked", device |-> device, x |-> x, y |-> y, color |-> color]

DeviceFlush(device) ==
    [t |-> "flush", device |-> device, x |-> 0, y |-> 0, color |-> BLACK]

\* The write CanvasLayout::flush makes for the pixel at a global coordinate
PixelWrite(key) ==
    LET pixel == coordinate_map[key]
        device == devices[pixel.device_index + 1]
        local == to_local(key[1], key[2], device.rotation, device.x, device.y)
    IN  SetUnchecked(pixel.device_index, local[1], local[2],
                     transform_color(pixel.color_new, light_threshold,
                                     Mock_lowest_visible_brightness))

\* A flush that flushes the devices before it hands them their pixels
FlushSchedule_flush_first(writes, flushes) == flushes \o writes

\* The order of CanvasLayout::flush: the loop over the pixels, then the loop
\* over the devices
FlushSchedule(writes, flushes) == writes \o flushes

\* A device's canvas after the events of a schedule, in order
RECURSIVE CanvasAfter(_, _, _, _)
CanvasAfter(canvas, d, schedule, n) ==
    IF n = 0 THEN canvas
    ELSE \* the canvas after the first n - 1 events, then the n-th
         CHOOSE after \in
            { IF schedule[n].device # d THEN before
              ELSE IF schedule[n].t = "flush"
                   THEN [before EXCEPT !.curr_buf = before.new_buf]
                   ELSE [before EXCEPT !.new_buf[<< schedule[n].x, schedule[n].y >>] =
                                            schedule[n].color] :
              before \in { CanvasAfter(canvas, d, schedule, n - 1) } } : TRUE

\* CanvasLayout::flush, HashMap::iter_mut visiting the pixels in the given
\* order. Every device is a MockCanvas, whose flush returns Ok.
LayoutFlush(order) ==
    /\ kind = "layout"
    /\ ~panicked
    /\ \E keys \in { KeysInOrder(DOMAIN coordinate_map, order) } :
       \E writes \in { [i \in DOMAIN keys |-> PixelWrite(keys[i])] } :
       \E flushes \in { [d \in DOMAIN devices |-> DeviceFlush(d - 1)] } :
       \E schedule \in { FlushSchedule(writes, flushes) } :
       \E outside \in { { i \in DOMAIN writes :
                            << writes[i].x, writes[i].y >> \notin
                                DOMAIN devices[writes[i].device + 1].canvas.new_buf } } :
           IF outside = {}
           THEN /\ devices' = [d \in DOMAIN devices |->
                                  [devices[d] EXCEPT !.canvas =
                                      CanvasAfter(devices[d].canvas, d - 1, schedule,
                                                  Len(schedule))]]
                /\ coordinate_map' = [c \in DOMAIN coordinate_map |->
                                         [coordinate_map[c] EXCEPT
                                             !.color_old = coordinate_map[c].color_new]]
                /\ log' = schedule
                /\ last' = Called("flush", "Ok")
                /\ UNCHANGED panicked
           ELSE /\ panicked' = TRUE
                /\ log' = << >>
                /\ last' = Called("flush", "panic")
                /\ UNCHANGED << devices, coordinate_map >>
    /\ UNCHANGED << kind, curr_state, new_state, curr_buf, new_buf, leds, cursor,
                    send_failed, trip, port, call, mk2, game >>


\* The colours the host writes to a canvas of kind k
ColorsFor(k) == IF k = "layout" THEN LayoutColorInputs ELSE ColorInputs

\* The colours the host paints a whole canvas of kind k with
PaintsFor(k) == IF k = "layout" THEN { RED } ELSE PaintInputs

Next ==
    \/ \E pad \in PadInputs, color \in ColorsFor(kind) : Set(pad, color)
    \/ \E pad \in PadInputs, color \in ColorsFor(kind) : Toggle(pad, color)
    \/ Clear
    \/ \E color \in PaintsFor(kind) : Paint(color)
    \/ MockFlush
    \/ \E fail_at \in 0 .. MaxFailAt : Flush(fail_at)

\* The host with one device, mock or padding canvas
Spec == Init /\ [][Next]_vars

\* The calls only a CanvasLayout takes
LayoutCalls ==
    \/ \E offset \in LayoutOffsets, rotation \in Rotations, created \in BOOLEAN :
          Add(offset[1], offset[2], rotation, created)
    \/ \E order \in IterationOrders : LayoutFlush(order)

LayoutNext ==
    \/ LayoutCalls
    \/ \E pad \in PadInputs, color \in LayoutColorInputs : Set(pad, color)
    \/ \E pad \in PadInputs, color \in LayoutColorInputs : Toggle(pad, color)

\* The host with a CanvasLayout
SpecLayout == LayoutInit /\ [][LayoutNext]_vars

\* The host with any one canvas
SpecAll == (Init \/ LayoutInit) /\ [][Next \/ LayoutCalls]_vars

----------------------------------------------------------------------------
(* A coordinate translated local -> global -> local                        *)

\* The offsets devices are placed at: none, inside a neighbour's box, right
\* of a 9x9 neighbour, the largest word and the largest word that is
\* positive as an i32
TripOffsets == { 0, 3, BOUNDING_BOX_WIDTH, Wrap - 1, Wrap \div 2 - 1 }

\* The local coordinates of a 9x9 device
TripCoordinates == 0 .. BOUNDING_BOX_WIDTH - 1

TripInit ==
    /\ kind = "trip"
    /\ curr_state = << >>
    /\ new_state = << >>
    /\ curr_buf = << >>
    /\ new_buf = << >>
    /\ leds = << >>
    /\ cursor = 0
    /\ game = << >>
    /\ send_failed = FALSE
    /\ panicked = FALSE
    /\ last = Called("new", "Ok")
    /\ devices = << >>
    /\ coordinate_map = << >>
    /\ log = << >>
    /\ \E rot \in Rotations, x_offset \in TripOffsets, y_offset \in TripOffsets,
          x \in TripCoordinates, y \in TripCoordinates, overflow_checks \in BOOLEAN :
          trip = [stage |-> "local", overflow_checks |-> overflow_checks,
                  rot |-> rot, x_offset |-> x_offset,
                  y_offset |-> y_offset, local |-> << x, y >>,
                  global |-> << x, y >>, back |-> << x, y >>]
    /\ port = << >>
    /\ call = << >>
    /\ mk2 = << >>

\* The closure add() hands the device: a message at a local coordinate is
\* reported at to_global of it
Report ==
    /\ trip.stage = "local"
    /\ IF /\ trip.overflow_checks
          /\ to_global_overflows(trip.local[1], trip.local[2], trip.rot,
                                 trip.x_offset, trip.y_offset)
       THEN trip' = [trip EXCEPT !.stage = "panic"]
       ELSE trip' = [trip EXCEPT !.stage = "global",
                                 !.global = to_global(trip.local[1], trip.local[2], trip.rot,
                                                      trip.x_offset, trip.y_offset)]
    /\ UNCHANGED << kind, curr_state, new_state, curr_buf, new_buf, leds, cursor,
                    send_failed, panicked, last, devices, coordinate_map, log,
                    port, call, mk2, game >>

\* CanvasLayout::flush: the pixel at a global coordinate is written at
\* to_local of it
Deliver ==
    /\ trip.stage = "global"
    /\ trip' = [trip EXCEPT !.stage = "back",
                            !.back = to_local(trip.global[1], trip.global[2], trip.rot,
                                              trip.x_offset, trip.y_offset)]
    /\ UNCHANGED << kind, curr_state, new_state, curr_buf, new_buf, leds, cursor,
                    send_failed, panicked, last, devices, coordinate_map, log,
                    port, call, mk2, game >>

TripNext == Report \/ Deliver

\* Every rotation, offset and local coordinate through to_global and to_local
SpecTrip == TripInit /\ [][TripNext]_vars

----------------------------------------------------------------------------
(* Properties of one canvas                                               *)

\* Every pad of the canvas's bounding box
PadsOf(k) ==
    { Pad(x, y) : x \in 0 .. bounding_box_width(k) - 1,
                  y \in 0 .. bounding_box_height(k) - 1 }

\* Every pad a canvas may hold a color for: its bounding box and, in a
\* layout, every coordinate of the map
HeldPads(k) ==
    PadsOf(k) \cup (IF k = "layout"
                    THEN { Pad(c[1], c[2]) : c \in DOMAIN coordinate_map } ELSE { })

FlushedOk(l) == l.op = "flush" /\ l.ret = "Ok"

\* C1: writing color c to a valid pad leaves get(pad) at the displayed color
\* and makes get_pending(pad) return c; a flush that returns Ok makes
\* get(pad) return what get_pending(pad) returned, on every valid pad, and
\* changes no pending color.
C1_WriteThenFlush ==
    [][ /\ last'.op = "set" =>
              \A pad \in PadInputs, color \in ColorInputs :
                  (InBounds(kind, pad) /\ Set(pad, color)) =>
                      /\ get(kind, pad)' = get(kind, pad)
                      /\ get_new(kind, pad)' = Some(color)
        /\ FlushedOk(last') =>
              \A pad \in HeldPads(kind) :
                  InBounds(kind, pad) =>
                      /\ get(kind, pad)' = get_new(kind, pad)
                      /\ get_new(kind, pad)' = get_new(kind, pad) ]_vars

\* C1 witness: a flush has returned Ok and the pad written RED displays RED
C1_Witness ==
    /\ FlushedOk(last)
    /\ get(kind, Pad(7, 0)) = Some(RED)
    /\ get_new(kind, Pad(7, 0)) = Some(RED)

\* What the device shows for a canvas color: its 2-bit red and green
Shown(color) ==
    << Quantize(color, COLOR_PRECISION)[1], Quantize(color, COLOR_PRECISION)[2] >>

\* C2: on a classic 9x9 device canvas, as long as every flush has returned
\* Ok, the device that received every transmitted message shows on each of
\* the 80 valid pads the 2-bit red/green quantization of the pad's displayed
\* color.
C2_DeviceShowsDisplayed ==
    (kind \in DeviceKinds /\ ~send_failed /\ ~panicked) =>
        \A p \in ValidPads : leds[p] = Shown(curr_state[p])

\* The valid pads whose colors in two buffers quantize differently
QuantizedDiffer(curr, pending) ==
    { c \in ValidPads : Quantize(pending[c], COLOR_PRECISION)
                            # Quantize(curr[c], COLOR_PRECISION) }

\* The pads a change list has entries for
Entries(changes) == { << changes[i][1], changes[i][2] >> : i \in DOMAIN changes }

\* C3: the change list DeviceCanvas::flush builds holds exactly one entry
\* (x, y, quantized pending color) for each valid pad whose quantized pending
\* color differs from its quantized displayed color, and no other entry;
\* flush calls Spec::flush once if that list is non-empty and not at all
\* otherwise; after a flush that returns Ok, curr_state equals new_state,
\* and a flush that returns Err leaves curr_state as it was.
C3_ChangeListQuantized ==
    /\ [](HasDevice(kind) =>
            \A changes \in { ChangeList(DeviceOf(kind), curr_state, new_state) } :
                /\ Entries(changes) = QuantizedDiffer(curr_state, new_state)
                /\ Cardinality(Entries(changes)) = Len(changes)
                /\ \A i \in DOMAIN changes :
                      changes[i][3] = Quantize(new_state[<< changes[i][1], changes[i][2] >>],
                                               COLOR_PRECISION))
    /\ [][ (HasDevice(kind) /\ last'.op = "flush") =>
              /\ last'.calls = IF QuantizedDiffer(curr_state, new_state) # {} THEN 1 ELSE 0
              /\ FlushedOk(last') => curr_state' = new_state'
              /\ last'.ret = "Err" => curr_state' = curr_state ]_vars

\* C3 witness: a flush has passed a change for the written pad to Spec::flush
\* and returned Ok
C3_Witness ==
    /\ HasDevice(kind)
    /\ FlushedOk(last)
    /\ last.calls = 1
    /\ curr_state[<< 7, 0 >>] = RED
    /\ curr_state = new_state

\* C3 as stated: an entry for each valid pad whose pending color differs
\* from its displayed color
C3_ChangeListRaw ==
    HasDevice(kind) =>
        Entries(ChangeList(DeviceOf(kind), curr_state, new_state))
            = { c \in ValidPads : new_state[c] # curr_state[c] }

\* A pad outside the canvas: a negative coordinate, a coordinate at or
\* beyond the bounding box, or the missing top right cell of a 9x9 device
OutOfBounds(k, pad) ==
    \/ pad.x < 0
    \/ pad.y < 0
    \/ pad.x >= bounding_box_width(k)
    \/ pad.y >= bounding_box_height(k)
    \/ (k \in DeviceKinds /\ pad = Pad(8, 0))

Buffers == << curr_state, new_state, curr_buf, new_buf >>

RowMajor80 ==
    [i \in 1 .. 80 |-> IF i <= 8 THEN << i - 1, 0 >>
                       ELSE << (i - 9) % 9, 1 + ((i - 9) \div 9) >>]

\* C5: on a 9x9 device canvas iter() yields the 80 valid pads, each once,
\* never (8,0), in row-major order, and yields that same sequence whatever
\* has been written or flushed.
C5_IterRowMajor ==
    kind \in DeviceKinds =>
        \A pads \in { CanvasIterator_new(kind) } :
            /\ Len(pads) = 80
            /\ pads = RowMajor80
            /\ \A i \in DOMAIN pads : pads[i] # << 8, 0 >>
            /\ \A i, j \in DOMAIN pads : i # j => pads[i] # pads[j]

\* C5 witness: iter() on a device canvas after a write and a flush
C5_Witness ==
    /\ kind \in DeviceKinds
    /\ FlushedOk(last)
    /\ curr_state[<< 7, 0 >>] = RED
    /\ Len(CanvasIterator_new(kind)) = 80

----------------------------------------------------------------------------
(* Properties of a CanvasLayout                                            *)

\* The global coordinates the pads of a device translate to
Footprint(device) ==
    { to_global(c[1], c[2], device.rotation, device.x, device.y) :
          c \in DOMAIN device.canvas.new_buf }

\* The devices whose pads translate to a global coordinate
Owners(c) == { d \in DOMAIN devices : c \in Footprint(devices[d]) }

\* C7: an add whose device has a pad translating to a coordinate the layout
\* already holds panics during the add, the device list as it was and
\* nothing flushed by it (no step that ends otherwise is such an add); so
\* in a layout that goes on every coordinate of the map belongs to exactly
\* one device of the list, the one its pixel names, and every pad of every
\* device is in the map.
C7_NoSharedCoordinate ==
    /\ [](~panicked =>
            /\ \A c \in DOMAIN coordinate_map :
                  Owners(c) = { coordinate_map[c].device_index + 1 }
            /\ \A d \in DOMAIN devices : Footprint(devices[d]) \subseteq DOMAIN coordinate_map)
    /\ [][ (/\ last'.op = "add"
             /\ ~(panicked' /\ last'.ret = "panic" /\ devices' = devices /\ log' = log))
            => \A offset \in LayoutOffsets, rotation \in Rotations :
                  ~(/\ Footprint(LayoutDevice(MockCanvas_new(SubWidth, SubHeight),
                                              rotation, offset[1], offset[2]))
                          \cap DOMAIN coordinate_map # { }
                    /\ Add(offset[1], offset[2], rotation, TRUE)) ]_vars

\* C7 witness: a second add overlapped the first device and panicked
C7_Witness ==
    /\ last = Called("add", "panic")
    /\ Len(devices) = 1
    /\ panicked

\* The local pad of a device that translates to a global coordinate
LocalOf(device, c) ==
    CHOOSE l \in DOMAIN device.canvas.new_buf :
        to_global(l[1], l[2], device.rotation, device.x, device.y) = c

\* The color the device owning a layout pixel is handed for it
Handed(color) == transform_color(color, light_threshold, Mock_lowest_visible_brightness)

\* C9: a layout flush first writes, for every coordinate of the map, the
\* threshold-transformed pending color into the owning device's canvas at
\* the pad's local coordinate, one write per coordinate, then flushes every
\* device once, in the order the devices were added, and makes each pixel's
\* displayed color its pending color.
C9_FlushWritesThenFlushes ==
    (kind = "layout" /\ FlushedOk(last)) =>
        LET writes == Cardinality(DOMAIN coordinate_map)
        IN  /\ Len(log) = writes + Len(devices)
            /\ \A c \in DOMAIN coordinate_map :
                  LET d == coordinate_map[c].device_index + 1
                      l == LocalOf(devices[d], c)
                      write == SetUnchecked(d - 1, l[1], l[2],
                                            Handed(coordinate_map[c].color_new))
                  IN  /\ Cardinality({ i \in 1 .. writes : log[i] = write }) = 1
                      /\ devices[d].canvas.curr_buf[l] = write.color
                      /\ coordinate_map[c].color_old = coordinate_map[c].color_new
            /\ \A i \in 1 .. Len(devices) : log[writes + i] = DeviceFlush(i - 1)

\* C9 witness: a layout of two devices was flushed with a RED pixel
C9_Witness ==
    /\ kind = "layout"
    /\ FlushedOk(last)
    /\ Len(devices) = 2
    /\ \E c \in DOMAIN coordinate_map :
          /\ coordinate_map[c].color_old = RED
          /\ coordinate_map[c].device_index = 1

\* C10: the bounding box of a layout covers every coordinate of its map,
\* and iter() yields every coordinate of the map exactly once.
C10_BoundingBoxCoversMap ==
    (kind = "layout" /\ ~panicked) =>
        /\ \A c \in DOMAIN coordinate_map :
              c[1] < Layout_bounding_box_width /\ c[2] < Layout_bounding_box_height
        /\ \A c \in DOMAIN coordinate_map :
              Cardinality({ i \in DOMAIN CanvasIterator_new("layout") :
                               CanvasIterator_new("layout")[i] = c }) = 1

----------------------------------------------------------------------------
(* Properties of Rotation                                                  *)

\* C8: for every rotation, every local coordinate of a 9x9 device and every
\* offset whose sum with the rotated coordinate fits an i32, to_global
\* returns and to_local of what it returns is the coordinate; to_global
\* panics only where a sum does not fit and the build checks overflow.
C8_RoundTripWhereSumFits ==
    kind = "trip" =>
        /\ trip.stage = "back" => trip.back = trip.local
        /\ trip.stage = "panic" =>
              /\ trip.overflow_checks
              /\ to_global_overflows(trip.local[1], trip.local[2], trip.rot,
                                     trip.x_offset, trip.y_offset)

\* C8 as stated: for every rotation, offset and local coordinate, to_local
\* of to_global of the coordinate is the coordinate.
C8_RoundTrip ==
    (kind = "trip" /\ trip.stage \in { "back", "panic" }) =>
        (trip.stage = "back" /\ trip.back = trip.local)

\* C8 witness: a coordinate off the axis went through a quarter turn at
\* offset 0, where the global coordinate wraps, and came back
C8_Witness ==
    /\ kind = "trip"
    /\ trip.stage = "back"
    /\ trip.rot = "Left"
    /\ trip.local = << 1, 2 >>
    /\ trip.x_offset = 0
    /\ trip.global[1] > BOUNDING_BOX_WIDTH
    /\ trip.back = << 1, 2 >>


----------------------------------------------------------------------------
(* Input decoding: one decode_message per driver. A frame is the sequence  *)
(* of bytes the transport hands the callback.                              *)

\* An input message; t is the enum variant
Press(button) == [t |-> "Press", button |-> button]
Release(button) == [t |-> "Release", button |-> button]
\* Any other variant, with the bytes it carries
Variant(t, bytes) == [t |-> t, bytes |-> bytes]
\* Option::None in place of a message
Absent == [t |-> "None"]
\* No arm but the match's last, catch-all arm takes the frame
Unmatched == [t |-> "unmatched"]

\* In a slice pattern, a byte bound to a name or ignored
Wild == -1

\* if let &[...] = data: the lengths agree and every literal byte agrees
Matches(data, pattern) ==
    /\ Len(data) = Len(pattern)
    /\ \A i \in 1 .. Len(pattern) : pattern[i] = Wild \/ data[i] = pattern[i]

\* protocols::query::parse_device_query's pattern
DeviceQueryReply ==
    << 240, 126, Wild, 6, 2, 0, 32, 41, Wild, Wild, Wild, Wild, Wild, Wild, Wild, Wild, 247 >>

\* protocols::query::parse_version_query's pattern
VersionQueryReply ==
    << 240, 0, 32, 41, 0, 112, Wild, Wild, Wild, Wild, Wild, Wild, Wild, Wild, Wild, Wild, Wild, Wild, 247 >>

\* A classic decoder that reads the button code as 8 pads to the row
decode_grid_button_8(btn) == GridButton(btn % 8, btn \div 8)

\* launchpad_s::input::decode_grid_button (and launchpad_mini's)
decode_grid_button(btn) == GridButton(btn % 16, btn \div 16)

\* match velocity { 0 => Release, 127 => Press, other => panic! }
ByVelocity(button, velocity) ==
    IF velocity = 0 THEN Release(button)
    ELSE IF velocity = 127 THEN Press(button)
    ELSE Fatal

\* The arms both classic decoders share
Classic_arms(data) ==
    IF Matches(data, DeviceQueryReply) THEN Variant("DeviceInquiry", << data[3] >>)
    ELSE IF Matches(data, VersionQueryReply) THEN Variant("VersionInquiry", << >>)
    ELSE IF Matches(data, << 144, Wild, Wild >>)
        THEN ByVelocity(decode_grid_button(data[2]), data[3])
    ELSE IF Matches(data, << 176, Wild, Wild >>) /\ data[2] \in 104 .. 111
        THEN ByVelocity(ControlButton(data[2] - 104), data[3])
    ELSE IF Matches(data, << 176, 0, 3 >>) THEN Variant("TextEndedOrLooped", << >>)
    ELSE Unmatched

\* The Launchpad S decoder without its &[a, b, c] arm
S_decode_message_strict(data) ==
    IF Classic_arms(data) # Unmatched THEN Classic_arms(data) ELSE Fatal

\* launchpad_s::Input::decode_message: any other three bytes are an
\* UnknownShortMessage
S_decode_message(data) ==
    IF Classic_arms(data) # Unmatched THEN Classic_arms(data)
    ELSE IF Len(data) = 3 THEN Variant("UnknownShortMessage", data)
    ELSE Fatal

\* launchpad_mini::Input::decode_message
Mini_decode_message(data) ==
    IF Classic_arms(data) # Unmatched THEN Classic_arms(data) ELSE Fatal

\* In place of a byte: the subtraction panicked
Overflowed == -1

\* a - b on u8: a panic with overflow checks, a wrapped byte without
u8_sub(a, b, overflow_checks) ==
    IF a >= b THEN a - b
    ELSE IF overflow_checks THEN Overflowed
    ELSE a - b + 256

\* A decode_grid_button that takes the column from 0: x = btn % 10
decode_grid_button_10_from_0(btn, overflow_checks) ==
    IF u8_sub(8, btn \div 10, overflow_checks) = Overflowed THEN PanicButton
    ELSE GridButton(btn % 10, u8_sub(8, btn \div 10, overflow_checks))

\* decode_grid_button of the MK2 and the Mini MK3: x = (btn % 10) - 1,
\* y = 8 - (btn / 10)
decode_grid_button_10(btn, overflow_checks) ==
    \* the two subtractions, each of which may overflow
    IF Overflowed \in { u8_sub(btn % 10, 1, overflow_checks), u8_sub(8, btn \div 10, overflow_checks) }
    THEN PanicButton
    ELSE GridButton(u8_sub(btn % 10, 1, overflow_checks), u8_sub(8, btn \div 10, overflow_checks))

\* A message carrying a button, or the panic that computing the button raised
WithButton(button, velocity) ==
    IF button = PanicButton THEN Fatal ELSE ByVelocity(button, velocity)

\* LaunchpadMk2Input::decode_short_message, its arms that name a message
Mk2_short_arms(data, overflow_checks) ==
    IF data[1] = 144 THEN WithButton(decode_grid_button_10(data[2], overflow_checks), data[3])
    ELSE IF data[1] = 176 /\ data[2] \in 104 .. 111
        THEN ByVelocity(ControlButton(data[2] - 104), data[3])
    ELSE IF data[1] = 176 /\ data[2] \in 21 .. 28
        THEN Variant("FaderChange", << data[2] - 21, data[3] >>)
    ELSE Unmatched

\* &[240, 0, 32, 41, 0, 112, ref _data @ .., 247]
Mk2VersionReply(data) ==
    /\ Len(data) >= 7
    /\ SubSeq(data, 1, 6) = << 240, 0, 32, 41, 0, 112 >>
    /\ data[Len(data)] = 247

\* LaunchpadMk2Input::decode_sysex_message, its arms before other => panic!
Mk2_sysex_arms(data) ==
    IF Matches(data, << 240, 0, 32, 41, 2, 24, 21, 247 >>) THEN Variant("TextEndedOrLooped", << >>)
    ELSE IF Matches(data, << 240, 126, Wild, 6, 2, 0, 32, 41, 105, 0, 0, 0, Wild, Wild, Wild, Wild, 247 >>)
        THEN Variant("DeviceInquiry", << data[3] >>)
    ELSE IF Mk2VersionReply(data) THEN Absent
    ELSE Unmatched

\* LaunchpadMk2Input::decode_message, up to the panic! arms
Mk2_arms(data, overflow_checks) ==
    IF Len(data) = 3 THEN Mk2_short_arms(data, overflow_checks)
    ELSE Mk2_sysex_arms(data)

\* LaunchpadMk2Input::decode_message
Mk2_decode_message(data, overflow_checks) ==
    IF Mk2_arms(data, overflow_checks) # Unmatched THEN Mk2_arms(data, overflow_checks)
    ELSE Fatal

\* launchpad_mini_mk3::input::decode_control_button
decode_control_button(btn, overflow_checks) ==
    IF btn \in 91 .. 98 THEN ControlButton(btn - 91)
    ELSE IF btn \in 19 .. 89 /\ btn % 10 = 9 THEN decode_grid_button_10(btn, overflow_checks)
    ELSE PanicButton

\* impl From<u8> for Layout
Layout_from(id) == IF id \in { 0, 1 } THEN Variant("ChangeLayout", << id >>) ELSE Fatal

\* launchpad_mini_mk3::Input::decode_message, its arms before other => panic!
MiniMk3_arms(data, overflow_checks) ==
    IF Matches(data, << 144, Wild, Wild >>)
        THEN WithButton(decode_grid_button_10(data[2], overflow_checks), data[3])
    ELSE IF Matches(data, << 176, Wild, Wild >>)
        THEN WithButton(decode_control_button(data[2], overflow_checks), data[3])
    ELSE IF Matches(data, << 128, Wild, Wild >>) THEN
        IF data[3] # 64 THEN Fatal
        ELSE IF decode_grid_button_10(data[2], overflow_checks) = PanicButton THEN Fatal
        ELSE Release(decode_grid_button_10(data[2], overflow_checks))
    ELSE IF Matches(data, << 240, 126, 0, 6, 2, 0, 32, 41, 19, 1, 0, 0, Wild, Wild, Wild, Wild, 247 >>)
        THEN Variant("ApplicationVersion", SubSeq(data, 13, 16))
    ELSE IF Matches(data, << 240, 126, 0, 6, 2, 0, 32, 41, 19, 17, 0, 0, Wild, Wild, Wild, Wild, 247 >>)
        THEN Variant("BootloaderVersion", SubSeq(data, 13, 16))
    ELSE IF Matches(data, << 240, 0, 32, 41, 2, 13, 9, Wild, 247 >>)
        THEN Variant("SleepMode", << IF data[8] = 0 THEN 0 ELSE 1 >>)
    ELSE IF Matches(data, << 240, 0, 32, 41, 2, 13, 14, Wild, 247 >>) THEN Layout_from(data[8])
    ELSE IF Matches(data, << 240, 0, 32, 41, 2, 13, 8, Wild, 247 >>)
        THEN Variant("Brightness", << data[8] >>)
    ELSE Unmatched

\* launchpad_mini_mk3::Input::decode_message
MiniMk3_decode_message(data, overflow_checks) ==
    IF MiniMk3_arms(data, overflow_checks) # Unmatched THEN MiniMk3_arms(data, overflow_checks)
    ELSE Fatal

\* launch_control::Button::pad and ::control
LcPad(index) == [t |-> "Pad", index |-> index]
LcControl(index) == [t |-> "Control", index |-> index]

\* A Launch Control message carries its template
LcMessage(t, template, button) == [t |-> t, template |-> template, button |-> button]

\* launch_control::Input::decode_short_message: match [status, note, velocity],
\* its arms before _ => panic!
LaunchControl_short_arms(data) ==
    LET status == (data[1] \div 16) * 16
        template == data[1] % 16
        note == data[2]
        velocity == data[3]
    IN  IF status = 144 /\ note \in 9 .. 12 /\ velocity = 127
            THEN LcMessage("Press", template, LcPad(note - 9))
        ELSE IF status = 128 /\ note \in 9 .. 12 /\ velocity = 0
            THEN LcMessage("Release", template, LcPad(note - 9))
        ELSE IF status = 144 /\ note \in 25 .. 28 /\ velocity = 127
            THEN LcMessage("Press", template, LcPad(note - 25 + 4))
        ELSE IF status = 128 /\ note \in 25 .. 28 /\ velocity = 0
            THEN LcMessage("Release", template, LcPad(note - 25 + 4))
        ELSE IF status = 128 /\ note = 0 /\ velocity = 0
            THEN Variant("StalePadRelease", << >>)
        ELSE IF status = 176 /\ note \in 114 .. 117 /\ velocity = 127
            THEN LcMessage("Press", template, LcControl(note - 114))
        ELSE IF status = 176 /\ note \in 114 .. 117 /\ velocity = 0
            THEN LcMessage("Release", template, LcControl(note - 114))
        ELSE IF status = 176 /\ note = 0 /\ velocity = 0
            THEN Variant("StaleControlButtonRelease", << >>)
        ELSE IF status = 176 /\ note \in 21 .. 28
            THEN Variant("KnobChanged", << template, note - 21, velocity >>)
        ELSE IF status = 176 /\ note \in 41 .. 48
            THEN Variant("KnobChanged", << template, note - 41 + 8, velocity >>)
        ELSE Unmatched

\* launch_control::Input::decode_sysex_message, its arm before _ => panic!
LaunchControl_sysex_arms(data) ==
    IF Matches(data, << 240, 0, 32, 41, 2, 10, 119, Wild, 247 >>)
    THEN Variant("TemplateChanged", << data[8] >>)
    ELSE Unmatched

\* launch_control::Input::decode_message, up to the panic! arms
LaunchControl_arms(data) ==
    IF Len(data) = 3 THEN LaunchControl_short_arms(data)
    ELSE LaunchControl_sysex_arms(data)

\* launch_control::Input::decode_message
LaunchControl_decode_message(data) ==
    IF LaunchControl_arms(data) # Unmatched THEN LaunchControl_arms(data) ELSE Fatal

\* The drivers with a decoder
Drivers == { "s", "mini", "mk2", "mini_mk3", "launch_control" }

\* InputDevice::decode_message of a driver
decode_message(driver, data, overflow_checks) ==
    CASE driver = "s" -> S_decode_message(data)
      [] driver = "mini" -> Mini_decode_message(data)
      [] driver = "mk2" -> Mk2_decode_message(data, overflow_checks)
      [] driver = "mini_mk3" -> MiniMk3_decode_message(data, overflow_checks)
      [] driver = "launch_control" -> LaunchControl_decode_message(data)

\* The arm of a driver's decoder that takes a frame, or Unmatched
Arms(driver, data, overflow_checks) ==
    CASE driver \in { "s", "mini" } -> Classic_arms(data)
      [] driver = "mk2" -> Mk2_arms(data, overflow_checks)
      [] driver = "mini_mk3" -> MiniMk3_arms(data, overflow_checks)
      [] driver = "launch_control" -> LaunchControl_arms(data)

----------------------------------------------------------------------------
(* The drivers' functions, each called with one input                      *)

\* First, second and third bytes of the three-byte frames tried: the status
\* bytes the decoders name, with and without a template in the low nibble,
\* and the notes and velocities at and around the ranges they match
StatusBytes == { 128, 131, 144, 146, 147, 176, 179 }
NoteBytes ==
    { 16 * y + x : x \in 0 .. 8, y \in 0 .. 7 } \cup (104 .. 111)
        \cup { 9, 10, 12, 15, 21, 25, 28, 41, 89, 90, 91, 99, 114, 127 }
VelocityBytes == { 0, 1, 3, 64, 127 }

ShortFrames == { << s, n, v >> : s \in StatusBytes, n \in NoteBytes, v \in VelocityBytes }

\* Frames of other lengths: too short, too long, and the replies and
\* notifications the devices send as SysEx, whole and truncated
LongFrames ==
    { << >>, << 144 >>, << 144, 0 >>, << 144, 0, 127, 0 >>, << 240, 0, 247 >>,
      << 240, 0, 32, 41, 2, 24, 21, 247 >>,
      << 240, 0, 32, 41, 2, 24, 21 >>,
      << 240, 126, 0, 6, 2, 0, 32, 41, 54, 0, 0, 0, 0, 1, 7, 1, 247 >>,
      << 240, 126, 0, 6, 2, 0, 32, 41, 105, 0, 0, 0, 0, 1, 7, 1, 247 >>,
      << 240, 126, 0, 6, 2, 0, 32, 41, 19, 1, 0, 0, 0, 4, 0, 7, 247 >>,
      << 240, 126, 0, 6, 2, 0, 32, 41, 19, 17, 0, 0, 0, 1, 0, 0, 247 >>,
      << 240, 0, 32, 41, 0, 112, 0, 0, 1, 3, 1, 0, 0, 1, 7, 1, 0, 8, 247 >>,
      << 240, 0, 32, 41, 0, 112, 247 >>,
      << 240, 0, 32, 41, 2, 13, 9, 0, 247 >>,
      << 240, 0, 32, 41, 2, 13, 9, 1, 247 >>,
      << 240, 0, 32, 41, 2, 13, 14, 1, 247 >>,
      << 240, 0, 32, 41, 2, 13, 14, 2, 247 >>,
      << 240, 0, 32, 41, 2, 13, 8, 127, 247 >>,
      << 240, 0, 32, 41, 2, 10, 119, 3, 247 >>,
      << 240, 0, 32, 41, 2, 10, 119, 3 >> }

Frames == ShortFrames \cup LongFrames

\* A function about to be called with an input; ret is what it returned,
\* once it has
Call(fn, arg) == [fn |-> fn, arg |-> arg, returned |-> FALSE, ret |-> << >>]

\* The call has returned ret (or raised the panic ret stands for)
Returns(ret) == call' = [call EXCEPT !.returned = TRUE, !.ret = ret]

\* The function fn is about to be called
Calling(fn) == call.fn = fn /\ ~call.returned

\* The function fn has been called
Returned(fn) == call.fn = fn /\ call.returned

\* The drivers with palette and RGB colors
ColorDrivers == { "mk2", "mini_mk3" }

\* MAX_RGB of the Mini MK3; the MK2's limit is written out as 63
MAX_RGB(driver) == IF driver = "mk2" THEN 63 ELSE 127

\* PaletteColor::is_valid (the same in both drivers)
PaletteColor_is_valid(id) == id <= 127

\* PaletteColor::new, and From<u8> for PaletteColor, which calls it
PaletteColor_new(id) == IF PaletteColor_is_valid(id) THEN [id |-> id] ELSE Fatal

\* PaletteColor::set_id: self.id = id
PaletteColor_set_id(self, id) == [self EXCEPT !.id = id]

\* RgbColor::is_valid
RgbColor_is_valid(driver, r, g, b) ==
    r <= MAX_RGB(driver) /\ g <= MAX_RGB(driver) /\ b <= MAX_RGB(driver)

\* RgbColor::new
RgbColor_new(driver, r, g, b) ==
    IF RgbColor_is_valid(driver, r, g, b) THEN [r |-> r, g |-> g, b |-> b] ELSE Fatal

\* RgbColor::set_red, set_green, set_blue: the component is asserted, then stored
RgbColor_set(driver, self, method, v) ==
    IF v > MAX_RGB(driver) THEN Fatal
    ELSE CASE method = "set_red" -> [self EXCEPT !.r = v]
           [] method = "set_green" -> [self EXCEPT !.g = v]
           [] method = "set_blue" -> [self EXCEPT !.b = v]

\* protocols::double_buffering::Color::set_red, set_green
Color_set(self, method, v) ==
    IF ~(v < 4) THEN Fatal
    ELSE IF method = "set_red" THEN [self EXCEPT !.red = v]
    ELSE [self EXCEPT !.green = v]

\* The u8 arguments tried: at and next to each device's limit
ColorBytes == { 0, 3, 4, 63, 64, 127, 128, 255 }

\* A call of a color type: the method, the value it is called on (for a
\* setter) and its u8 arguments
ColorArg(driver, method, self, bytes) ==
    [driver |-> driver, method |-> method, self |-> self, bytes |-> bytes]

\* Every constructor, conversion and setter of the three color types
ColorCalls ==
    { Call("PaletteColor", ColorArg(driver, method, PaletteColor_new(5), << id >>)) :
        driver \in ColorDrivers, method \in { "new", "from", "set_id" }, id \in ColorBytes }
    \cup { Call("RgbColor", ColorArg(driver, "new", << >>, << r, g, b >>)) :
              driver \in ColorDrivers, r \in ColorBytes, g \in ColorBytes, b \in ColorBytes }
    \cup { Call("RgbColor", ColorArg(driver, method, RgbColor_new(driver, 63, 0, 63), << v >>)) :
              driver \in ColorDrivers, method \in { "set_red", "set_green", "set_blue" },
              v \in ColorBytes }
    \cup { Call("Color", ColorArg("classic", "new", << >>, << red, green >>)) :
              red \in ColorBytes, green \in ColorBytes }
    \cup { Call("Color", ColorArg("classic", method, Color_new(3, 2), << v >>)) :
              method \in { "set_red", "set_green" }, v \in ColorBytes }

\* Every 2-bit color with every DoubleBufferingBehavior
CodeCalls ==
    { Call("make_color_code", [color |-> Color_new(red, green), dbb |-> dbb]) :
        red \in 0 .. 3, green \in 0 .. 3, dbb \in { DBB_None, DBB_Copy, DBB_Clear } }

\* Template::from_byte, through which template.into() goes: byte < 16 is asserted
Template_from_byte(byte) == IF byte < 16 THEN [template |-> byte] ELSE Fatal

\* launch_control::Button::code
LcButton_code(button) ==
    IF button.t = "Pad" THEN (IF button.index <= 3 THEN button.index + 9 ELSE button.index + 21)
    ELSE 114 + button.index

\* launch_control::Button::as_index
LcButton_as_index(button) == IF button.t = "Pad" THEN button.index ELSE 8 + button.index

\* launch_control::Output::set_button: the bytes sent
LaunchControl_set_button(template, button, color, d) ==
    IF Template_from_byte(template) = Fatal THEN Fatal
    ELSE << (IF button.t = "Pad" THEN 144 ELSE 176) + template, LcButton_code(button),
            make_color_code(color, d) >>

\* light_multiple that addresses template 0 whatever it is given
LaunchControl_light_multiple_template_0(template, pads) ==
    IF Template_from_byte(template) = Fatal THEN Fatal
    ELSE << 240, 0, 32, 41, 2, 10, 120, 0 >>
         \o [i \in 1 .. 2 * Len(pads) |->
                IF i % 2 = 1 THEN LcButton_as_index(pads[(i + 1) \div 2][1])
                ELSE make_color_code(pads[i \div 2][2], pads[i \div 2][3])]
         \o << 247 >>

\* launch_control::Output::light_multiple: the bytes sent
LaunchControl_light_multiple(template, pads) ==
    IF Template_from_byte(template) = Fatal THEN Fatal
    ELSE << 240, 0, 32, 41, 2, 10, 120, template >>
         \o [i \in 1 .. 2 * Len(pads) |->
                IF i % 2 = 1 THEN LcButton_as_index(pads[(i + 1) \div 2][1])
                ELSE make_color_code(pads[i \div 2][2], pads[i \div 2][3])]
         \o << 247 >>

\* launch_control::Output::light = light_multiple(template, &[(button, color, dbb)])
LaunchControl_light(template, button, color, dbb) ==
    LaunchControl_light_multiple(template, << << button, color, dbb >> >>)

\* The templates tried: every valid one and the first invalid one
TemplateBytes == 0 .. 16

\* The Launch Control's buttons: eight pads and Up, Down, Left, Right
LcButtons == { LcPad(i) : i \in 0 .. 7 } \cup { LcControl(i) : i \in 0 .. 3 }

\* light and set_button with every template and button, with the colors
\* OFF, RED and ORANGE
LightCalls ==
    { Call(fn, [template |-> t, button |-> button, color |-> color, dbb |-> dbb]) :
        fn \in { "light", "set_button" }, t \in TemplateBytes, button \in LcButtons,
        color \in { Color_new(0, 0), Color_new(3, 0), Color_new(3, 2) },
        dbb \in { DBB_None, DBB_Copy, DBB_Clear } }

\* shared::default_logical_to_physical
default_logical_to_physical(button) ==
    IF button.t = "ControlButton" THEN [x |-> button.index, y |-> 0]
    ELSE [x |-> button.x, y |-> button.y + 1]

\* The logical buttons of a 9x9 device
Buttons80 ==
    { ControlButton(i) : i \in 0 .. 7 } \cup { GridButton(x, y) : x \in 0 .. 8, y \in 0 .. 7 }

\* Every physical slot of the 9x9 box and one row and column beyond it, and
\* every logical button
ButtonCalls ==
    { Call("to_logical", [x |-> x, y |-> y]) :
        x \in 0 .. BOUNDING_BOX_WIDTH, y \in 0 .. BOUNDING_BOX_HEIGHT }
    \cup { Call("to_physical", button) : button \in Buttons80 }

\* launchpad_mini_mk3::output::row_buttons: the eight grid buttons of row y,
\* then ControlButton { index: 8 + y }
row_buttons(y) == [x \in 1 .. 8 |-> GridButton(x - 1, y)] \o << ControlButton(8 + y) >>

\* launchpad_mini_mk3::Output::encode_button; Overflowed for a failed assert!
encode_button(button) ==
    IF button.t = "GridButton"
    THEN (IF button.x <= 8 /\ button.y <= 7 THEN 10 * (8 - button.y) + button.x + 1
          ELSE Overflowed)
    ELSE IF button.index > 15 THEN Overflowed
    ELSE IF button.index <= 7 THEN button.index + 91
    ELSE (8 - (button.index - 8)) * 10 + 9

\* launchpad_mini_mk3::Output::set_buttons with palette styles: the bytes sent
set_buttons(buttons) ==
    IF \E i \in DOMAIN buttons :
          encode_button(buttons[i][1]) = Overflowed \/ ~PaletteColor_is_valid(buttons[i][2].id)
    THEN Fatal
    ELSE << 240, 0, 32, 41, 2, 13, 3 >>
         \o [i \in 1 .. 3 * Len(buttons) |->
                CASE i % 3 = 1 -> 0
                  [] i % 3 = 2 -> encode_button(buttons[(i + 1) \div 3][1])
                  [] OTHER -> buttons[i \div 3][2].id]
         \o << 247 >>

\* launchpad_mini_mk3::Output::light_row = light_rows([(row, color)]), which
\* hands set_buttons every button of row_buttons(row) with the color
light_row(row, color) ==
    set_buttons([i \in DOMAIN row_buttons(row) |-> << row_buttons(row)[i], color >>])

\* light_row with every row 0..=8 and the first row beyond, in two colors
RowCalls ==
    { Call("light_row", [row |-> row, color |-> PaletteColor_new(id)]) :
        row \in 0 .. 9, id \in { 5, 21 } }

\* The frames handed to the decoders
DecodeCalls ==
    { Call("decode_message",
           [driver |-> driver, data |-> data, overflow_checks |-> overflow_checks]) :
        driver \in Drivers, data \in Frames, overflow_checks \in BOOLEAN }

DriverInit ==
    /\ kind = "driver"
    /\ curr_state = << >>
    /\ new_state = << >>
    /\ curr_buf = << >>
    /\ new_buf = << >>
    /\ leds = << >>
    /\ cursor = 0
    /\ game = << >>
    /\ send_failed = FALSE
    /\ panicked = FALSE
    /\ last = Called("new", "Ok")
    /\ devices = << >>
    /\ coordinate_map = << >>
    /\ log = << >>
    /\ trip = << >>
    /\ port = << >>
    /\ \/ call \in DecodeCalls
       \/ call \in ColorCalls
       \/ call \in CodeCalls
       \/ call \in LightCalls
       \/ call \in ButtonCalls
       \/ call \in RowCalls
    /\ mk2 = << >>

\* The transport hands a driver's callback one frame
Decode ==
    /\ Calling("decode_message")
    /\ Returns(decode_message(call.arg.driver, call.arg.data, call.arg.overflow_checks))
    /\ UNCHANGED << canvas_vars, port, mk2, game >>

\* A constructor, conversion or setter of a color type is called
ColorCall ==
    /\ call.fn \in { "PaletteColor", "RgbColor", "Color" }
    /\ ~call.returned
    /\ Returns(CASE call.fn = "PaletteColor" ->
                     IF call.arg.method = "set_id"
                     THEN PaletteColor_set_id(call.arg.self, call.arg.bytes[1])
                     ELSE PaletteColor_new(call.arg.bytes[1])
                 [] call.fn = "RgbColor" ->
                     IF call.arg.method = "new"
                     THEN RgbColor_new(call.arg.driver, call.arg.bytes[1],
                                       call.arg.bytes[2], call.arg.bytes[3])
                     ELSE RgbColor_set(call.arg.driver, call.arg.self,
                                       call.arg.method, call.arg.bytes[1])
                 [] call.fn = "Color" ->
                     IF call.arg.method = "new"
                     THEN Color_new(call.arg.bytes[1], call.arg.bytes[2])
                     ELSE Color_set(call.arg.self, call.arg.method, call.arg.bytes[1]))
    /\ UNCHANGED << canvas_vars, port, mk2, game >>

\* make_color_code is called
MakeColorCode ==
    /\ Calling("make_color_code")
    /\ Returns(make_color_code(call.arg.color, call.arg.dbb))
    /\ UNCHANGED << canvas_vars, port, mk2, game >>

\* launch_control::Output::light or ::set_button is called; what returns is
\* the bytes handed to send
LaunchControlLight ==
    /\ call.fn \in { "light", "set_button" }
    /\ ~call.returned
    /\ Returns(IF call.fn = "light"
               THEN LaunchControl_light(call.arg.template, call.arg.button,
                                        call.arg.color, call.arg.dbb)
               ELSE LaunchControl_set_button(call.arg.template, call.arg.button,
                                             call.arg.color, call.arg.dbb))
    /\ UNCHANGED << canvas_vars, port, mk2, game >>

\* Spec::to_logical of a physical slot (default_physical_to_logical)
ToLogical ==
    /\ Calling("to_logical")
    /\ Returns(default_physical_to_logical(call.arg.x, call.arg.y))
    /\ UNCHANGED << canvas_vars, port, mk2, game >>

\* Spec::to_physical of a logical button, and Spec::to_logical of the result
ToPhysicalAndBack ==
    /\ Calling("to_physical")
    /\ \E physical \in { default_logical_to_physical(call.arg) } :
          Returns([physical |-> physical,
                   logical |-> default_physical_to_logical(physical.x, physical.y)])
    /\ UNCHANGED << canvas_vars, port, mk2, game >>

\* launchpad_mini_mk3::Output::light_row is called; what returns is the
\* bytes handed to send
LightRow ==
    /\ Calling("light_row")
    /\ Returns(light_row(call.arg.row, call.arg.color))
    /\ UNCHANGED << canvas_vars, port, mk2, game >>

DriverNext ==
    \/ Decode
    \/ ColorCall
    \/ MakeColorCode
    \/ LaunchControlLight
    \/ ToLogical
    \/ ToPhysicalAndBack
    \/ LightRow

\* Every driver function on every input
SpecDriver == DriverInit /\ [][DriverNext]_vars

----------------------------------------------------------------------------
(* Properties of the decoders                                              *)

\* The last call was decode_message, and no arm of the driver's decoder but
\* the catch-all takes the frame
UnknownFrame ==
    /\ Returned("decode_message")
    /\ Arms(call.arg.driver, call.arg.data, call.arg.overflow_checks) = Unmatched

\* C13 as the code has it: a frame that matches none of a decoder's shapes is
\* fatal, except that the Launchpad S decoder returns any such frame of three
\* bytes as an UnknownShortMessage carrying the bytes
C13_UnknownFrameFatalButShortOnS ==
    UnknownFrame =>
        IF call.arg.driver = "s" /\ Len(call.arg.data) = 3
        THEN call.ret = Variant("UnknownShortMessage", call.arg.data)
        ELSE call.ret = Fatal

\* C13 as stated: for every driver, a frame that matches none of the
\* decoder's known shapes raises a fatal error
C13_UnknownFrameFatal == UnknownFrame => call.ret = Fatal

\* C13 witness: the Mini MK3 decoder has panicked on a note-off with a status
\* byte that carries a channel, which none of its shapes has
C13_Witness ==
    /\ UnknownFrame
    /\ call.arg.driver = "mini_mk3"
    /\ call.arg.data = << 131, 9, 0 >>
    /\ call.ret = Fatal

\* The frame [0x90, 16 * y + x, velocity] and the frame [0xB0, 104 + i, velocity]
GridFrame(x, y, velocity) == << 144, 16 * y + x, velocity >>
ControlFrame(i, velocity) == << 176, 104 + i, velocity >>

\* The button a classic frame names on the wire: the one whose set_button
\* message has the frame's status byte and button code
NamedOnWire(data) ==
    { b \in { GridButton(x, y) : x \in 0 .. 8, y \in 0 .. 7 }
            \cup { ControlButton(i) : i \in 0 .. 7 } :
        /\ Len(data) = 3
        /\ SubSeq(set_button(b, Color_new(0, 0), DBB_None), 1, 2) = SubSeq(data, 1, 2) }

\* C15: the classic decoders map [0x90, 16y + x, 127 / 0] to Press / Release
\* of GridButton{x, y} and [0xB0, 104 + i, 127 / 0] to Press / Release of
\* ControlButton{i}, and the decoded button is the one set_button encodes
\* with the same status byte and button code
C15_ClassicDecode ==
    (Returned("decode_message") /\ call.arg.driver \in { "s", "mini" }) =>
        /\ \A x \in 0 .. 8, y \in 0 .. 7 :
              /\ call.arg.data = GridFrame(x, y, 127) => call.ret = Press(GridButton(x, y))
              /\ call.arg.data = GridFrame(x, y, 0) => call.ret = Release(GridButton(x, y))
        /\ \A i \in 0 .. 7 :
              /\ call.arg.data = ControlFrame(i, 127) => call.ret = Press(ControlButton(i))
              /\ call.arg.data = ControlFrame(i, 0) => call.ret = Release(ControlButton(i))
        /\ \A b \in NamedOnWire(call.arg.data) :
              call.arg.data[3] \in { 0, 127 } => call.ret.button = b

\* C15 witness: the Launchpad S decoder has decoded [0xB0, 104, 127] to a
\* press of the first control button
C15_Witness ==
    /\ Returned("decode_message")
    /\ call.arg.driver = "s"
    /\ call.arg.data = ControlFrame(0, 127)
    /\ call.ret = Press(ControlButton(0))
    /\ NamedOnWire(call.arg.data) = { ControlButton(0) }

----------------------------------------------------------------------------
(* Properties of the color types                                           *)

\* The range of a color value of a driver
InRange(fn, driver, color) ==
    CASE fn = "PaletteColor" -> color.id <= 127
      [] fn = "RgbColor" -> \A c \in { color.r, color.g, color.b } :
                               c <= (IF driver = "mk2" THEN 63 ELSE 127)
      [] fn = "Color" -> color.red <= 3 /\ color.green <= 3

\* C14: every PaletteColor, RgbColor and 2-bit Color obtained through a
\* constructor, conversion or setter lies within its range, and a call with
\* an out-of-range argument raises a fatal error
C14_ColorsInRange ==
    (call.fn \in { "PaletteColor", "RgbColor", "Color" } /\ call.returned) =>
        /\ call.ret # Fatal => InRange(call.fn, call.arg.driver, call.ret)
        /\ (\E i \in DOMAIN call.arg.bytes :
                 ~InRange(call.fn, call.arg.driver,
                          [id |-> call.arg.bytes[i], r |-> call.arg.bytes[i], g |-> 0, b |-> 0,
                           red |-> call.arg.bytes[i], green |-> 0]))
              => call.ret = Fatal

----------------------------------------------------------------------------
(* Properties of the color byte                                            *)

\* Bit i of the byte n
Bit(n, i) == (n \div (2 ^ i)) % 2

\* a | b on u8
BitOr(a, b) ==
    LET bit(i) == IF Bit(a, i) = 1 \/ Bit(b, i) = 1 THEN 2 ^ i ELSE 0
    IN  bit(0) + bit(1) + bit(2) + bit(3) + bit(4) + bit(5) + bit(6) + bit(7)

\* a << n on u8
Shl(a, n) == (a * 2 ^ n) % 256

\* C20: make_color_code(color, behavior) = (green << 4) | (code << 2) | red
\* with code None = 0, Copy = 1, Clear = 2; bits 6 and 7 are 0; distinct
\* (red, green, behavior) give distinct bytes; green 2, red 3, Copy gives 0x27
C20_ColorCode ==
    Returned("make_color_code") =>
        /\ DBB_None = 0 /\ DBB_Copy = 1 /\ DBB_Clear = 2
        /\ call.ret = BitOr(BitOr(Shl(call.arg.color.green, 4), Shl(call.arg.dbb, 2)),
                            call.arg.color.red)
        /\ Bit(call.ret, 6) = 0 /\ Bit(call.ret, 7) = 0
        /\ \A other \in CodeCalls :
              other.arg # call.arg => make_color_code(other.arg.color, other.arg.dbb) # call.ret
        /\ (call.arg = [color |-> Color_new(3, 2), dbb |-> DBB_Copy]) => call.ret = 39

\* C20 witness: green 2, red 3 and Copy have been packed into 0x27
C20_Witness ==
    /\ Returned("make_color_code")
    /\ call.arg = [color |-> Color_new(3, 2), dbb |-> DBB_Copy]
    /\ call.ret = 39

----------------------------------------------------------------------------
(* Properties of the Launch Control's lighting messages                    *)

\* The last call was the lighting call fn with a valid template
Lit(fn) == Returned(fn) /\ call.arg.template < 16

\* The bytes the same call sends with the template t
WithTemplate(t) ==
    IF call.fn = "light"
    THEN LaunchControl_light(t, call.arg.button, call.arg.color, call.arg.dbb)
    ELSE LaunchControl_set_button(t, call.arg.button, call.arg.color, call.arg.dbb)

\* C16 as the code has it: set_button sends the status byte 0x90 + t for a
\* pad (0xB0 + t for Up, Down, Left, Right); light sends the SysEx message of
\* light_multiple, whose first byte is 0xF0 and whose eighth byte is t; either
\* way the bytes differ between any two templates in 0..=15
C16_TemplateInBytes ==
    /\ Lit("set_button") =>
          call.ret[1] = (IF call.arg.button.t = "Pad" THEN 144 ELSE 176) + call.arg.template
    /\ Lit("light") =>
          /\ SubSeq(call.ret, 1, 7) = << 240, 0, 32, 41, 2, 10, 120 >>
          /\ call.ret[8] = call.arg.template
          /\ call.ret[Len(call.ret)] = 247
    /\ (Lit("light") \/ Lit("set_button")) =>
          \A t \in 0 .. 15 : t # call.arg.template => WithTemplate(t) # call.ret

\* C16 as stated: light on a pad sends the status byte 0x90 + t
C16_LightStatusByte ==
    (Lit("light") /\ call.arg.button.t = "Pad") => call.ret[1] = 144 + call.arg.template

\* C16 witness: light(3, Pad(0), RED, Copy) has sent a SysEx message that
\* names template 3
C16_Witness ==
    /\ Lit("light")
    /\ call.arg = [template |-> 3, button |-> LcPad(0), color |-> Color_new(3, 0),
                   dbb |-> DBB_Copy]
    /\ call.ret = << 240, 0, 32, 41, 2, 10, 120, 3, 0, 7, 247 >>

----------------------------------------------------------------------------
(* Properties of the default button mapping                                *)

\* C17: default_physical_to_logical after default_logical_to_physical gives
\* back every logical button of a 9x9 device; the two are the mapping of
\* Button80::abs_x / abs_y / from_abs; a slot is_valid rejects maps to None,
\* and no valid slot raises a fatal error
C17_DefaultMapping ==
    /\ Returned("to_physical") =>
          /\ call.ret.logical = call.arg
          /\ from_abs(call.ret.physical.x, call.ret.physical.y) = call.arg
    /\ Returned("to_logical") =>
          IF Spec_is_valid(call.arg.x, call.arg.y)
          THEN call.ret # PanicButton /\ call.ret = from_abs(call.arg.x, call.arg.y)
          ELSE call.ret = NoButton

----------------------------------------------------------------------------
(* Properties of the Mini MK3's rows                                       *)

\* The button codes a message of set_buttons lights with palette colors
CodesLit(bytes) == { bytes[7 + 3 * i - 1] : i \in 1 .. (Len(bytes) - 8) \div 3 }

\* The encoded buttons of the row the documentation counts as r: the control
\* row for 0, else grid row r - 1 with its right-side button
DocumentedRow(r) ==
    IF r = 0 THEN { 91 + i : i \in 0 .. 7 }
    ELSE { 10 * (8 - (r - 1)) + x + 1 : x \in 0 .. 8 }

\* C18: light_row counts rows from the control row: row 0 lights the top
\* control row, row r in 1..=8 lights grid row r - 1 and its right-side
\* button, and every row in 0..=8 is accepted without a fatal error
C18_RowsFromControlRow ==
    (Returned("light_row") /\ call.arg.row \in 0 .. 8) =>
        /\ call.ret # Fatal
        /\ CodesLit(call.ret) = DocumentedRow(call.arg.row)

----------------------------------------------------------------------------
(* Launchpad MK2 output: the layout register and fader mode                *)

\* enum Layout in the order of its wire codes 0 .. 5
Layouts == << "Session", "User1", "User2", "Reserved", "Volume", "Pan" >>

\* Output::change_layout: the layout-select message
change_layout(layout) ==
    << 240, 0, 32, 41, 2, 24, 34,
       (CHOOSE i \in 0 .. 5 : Layouts[i + 1] = layout), 247 >>

\* Output::encode_button
Mk2_encode_button(button) ==
    IF button.t = "GridButton"
    THEN IF button.x <= 8 /\ button.y <= 7
         THEN 10 * (8 - button.y) + button.x + 1 ELSE Fatal
    ELSE IF button.index <= 7 THEN button.index + 104 ELSE Fatal

\* Output::light = set_button(button, color, LightMode::Plain)
Mk2_light(button, color) ==
    << (IF button.t = "GridButton" THEN 144 ELSE 176),
       Mk2_encode_button(button), color.id >>

\* FaderMode::designate_faders with the faders given as << index, color id,
\* initial value >>
designate_faders(fader_type, faders) ==
    LET entry(f) == << f[1], (IF fader_type = "Volume" THEN 0 ELSE 1), f[2], f[3] >>
        body[i \in 0 .. Len(faders)] ==
            IF i = 0 THEN << >> ELSE body[i - 1] \o entry(faders[i])
    IN << 240, 0, 32, 41, 2, 24, 43 >> \o body[Len(faders)] \o << 247 >>

\* FaderMode::set_fader
set_fader(index, value) == << 176, 21 + index, value >>

\* The layout a mutated FaderMode::exit selects: the one it is in
exit_layout_kept(self) == self.fader_type

\* The layout FaderMode::exit selects
exit_layout(self) == "Session"

\* The layout FaderMode::new selects for a fader type
fader_layout(fader_type) == IF fader_type = "Volume" THEN "Volume" ELSE "Pan"

\* The device's register after a frame arrives: a layout-select message sets
\* it, every other message leaves it
Device_layout(layout, frame) ==
    IF Len(frame) = 9 /\ SubSeq(frame, 1, 7) = << 240, 0, 32, 41, 2, 24, 34 >>
       /\ frame[9] = 247 /\ frame[8] \in 0 .. 5
    THEN Layouts[frame[8] + 1] ELSE layout

\* The most frames the caller sends
MaxSent == 4

Mk2Buttons == { GridButton(0, 0), GridButton(8, 7), ControlButton(7) }
Mk2Colors == { [id |-> 0], [id |-> 5] }
Mk2Faders == { << >>, << << 0, 5, 0 >> >>, << << 0, 5, 0 >>, << 7, 3, 127 >> >> }

\* Output::send of one frame of the given kind: a frame the transport accepts
\* reaches the device, which is in layout mk2.layout when the frame arrives
Mk2Send(m, cmd, frame, ok) ==
    IF ok
    THEN [m EXCEPT !.sent = Append(@, [cmd |-> cmd, frame |-> frame, layout |-> m.layout]),
                   !.layout = Device_layout(m.layout, frame)]
    ELSE [m EXCEPT !.failed = TRUE]

\* A device in any layout, and a caller who has not connected yet
Mk2Init ==
    /\ kind = "mk2"
    /\ curr_state = << >>
    /\ new_state = << >>
    /\ curr_buf = << >>
    /\ new_buf = << >>
    /\ leds = << >>
    /\ cursor = 0
    /\ game = << >>
    /\ send_failed = FALSE
    /\ panicked = FALSE
    /\ last = Called("new", "Ok")
    /\ devices = << >>
    /\ coordinate_map = << >>
    /\ log = << >>
    /\ trip = << >>
    /\ port = << >>
    /\ call = << >>
    /\ \E layout \in { Layouts[i] : i \in 1 .. 6 } :
          mk2 = [held |-> "none", fader_type |-> "none", layout |-> layout,
                 connected |-> FALSE, failed |-> FALSE, sent |-> << >>]

\* Output::from_connection: the constructor selects Session; a failed send
\* returns the error and drops the connection
Mk2Connect ==
    /\ mk2.held = "none" /\ ~mk2.connected
    /\ \E ok \in BOOLEAN :
          mk2' = [Mk2Send(mk2, "layout", change_layout("Session"), ok)
                     EXCEPT !.connected = TRUE,
                            !.held = IF ok THEN "Output" ELSE "none"]
    /\ UNCHANGED << canvas_vars, port, call, game >>

\* Output::light on the Output the caller holds
Mk2Light ==
    /\ mk2.held = "Output" /\ Len(mk2.sent) < MaxSent
    /\ \E button \in Mk2Buttons, color \in Mk2Colors, ok \in BOOLEAN :
          mk2' = Mk2Send(mk2, "light", Mk2_light(button, color), ok)
    /\ UNCHANGED << canvas_vars, port, call, game >>

\* Output::enter_fader_mode -> FaderMode::new: the Output is moved in, the
\* fader layout selected; on an error the Output is dropped with the call
Mk2EnterFaderMode ==
    /\ mk2.held = "Output" /\ Len(mk2.sent) < MaxSent
    /\ \E fader_type \in { "Volume", "Pan" }, ok \in BOOLEAN :
          mk2' = [Mk2Send(mk2, "layout", change_layout(fader_layout(fader_type)), ok)
                     EXCEPT !.held = IF ok THEN "FaderMode" ELSE "none",
                            !.fader_type = IF ok THEN fader_type ELSE "none"]
    /\ UNCHANGED << canvas_vars, port, call, game >>

\* FaderMode::designate_faders on the FaderMode the caller holds
Mk2DesignateFaders ==
    /\ mk2.held = "FaderMode" /\ Len(mk2.sent) < MaxSent
    /\ \E faders \in Mk2Faders, ok \in BOOLEAN :
          mk2' = Mk2Send(mk2, "fader", designate_faders(mk2.fader_type, faders), ok)
    /\ UNCHANGED << canvas_vars, port, call, game >>

\* FaderMode::set_fader on the FaderMode the caller holds
Mk2SetFader ==
    /\ mk2.held = "FaderMode" /\ Len(mk2.sent) < MaxSent
    /\ \E index \in { 0, 7 }, value \in { 0, 127 }, ok \in BOOLEAN :
          mk2' = Mk2Send(mk2, "fader", set_fader(index, value), ok)
    /\ UNCHANGED << canvas_vars, port, call, game >>

\* FaderMode::exit: Session is selected and the Output handed back; on an
\* error the FaderMode is dropped with the call
Mk2Exit ==
    /\ mk2.held = "FaderMode" /\ Len(mk2.sent) < MaxSent
    /\ \E ok \in BOOLEAN :
          mk2' = [Mk2Send(mk2, "layout", change_layout(exit_layout(mk2)), ok)
                     EXCEPT !.held = IF ok THEN "Output" ELSE "none",
                            !.fader_type = "none"]
    /\ UNCHANGED << canvas_vars, port, call, game >>

Mk2Next ==
    \/ Mk2Connect
    \/ Mk2Light
    \/ Mk2EnterFaderMode
    \/ Mk2DesignateFaders
    \/ Mk2SetFader
    \/ Mk2Exit

\* One caller, one MK2
SpecMk2 == Mk2Init /\ [][Mk2Next]_vars

\* C19: the caller holds an Output only while the device is in Session and a
\* FaderMode only while it is in the layout of its fader type; every lighting
\* command reached the device in Session, every fader command in Volume or
\* Pan; and when no send has failed, connecting leaves the caller with an
\* Output whatever layout the device was in before
C19_LayoutFollowsHandle ==
    kind = "mk2" =>
      /\ mk2.held = "Output" => mk2.layout = "Session"
      /\ mk2.held = "FaderMode" =>
            /\ mk2.fader_type \in { "Volume", "Pan" }
            /\ mk2.layout = mk2.fader_type
      /\ \A i \in 1 .. Len(mk2.sent) :
            /\ mk2.sent[i].cmd = "light" => mk2.sent[i].layout = "Session"
            /\ mk2.sent[i].cmd = "fader" => mk2.sent[i].layout \in { "Volume", "Pan" }
      /\ (mk2.connected /\ ~mk2.failed) =>
            /\ mk2.held \in { "Output", "FaderMode" }
            /\ mk2.sent[1].frame = << 240, 0, 32, 41, 2, 24, 34, 0, 247 >>

\* A device found in Pan is connected, lit, taken into Volume fader mode,
\* moved a fader and is lit again after exit
C19_Witness ==
    /\ kind = "mk2" /\ mk2.held = "Output" /\ ~mk2.failed
    /\ Len(mk2.sent) = 4
    /\ mk2.sent[1].layout = "Pan"
    /\ mk2.sent[2].frame = << 240, 0, 32, 41, 2, 24, 34, 4, 247 >>
    /\ mk2.sent[3] = [cmd |-> "fader", frame |-> << 176, 28, 127 >>, layout |-> "Volume"]
    /\ mk2.sent[4].frame = << 240, 0, 32, 41, 2, 24, 34, 0, 247 >>

----------------------------------------------------------------------------
(* Polling input handles                                                   *)

\* Button80::abs_x / abs_y
Button_abs_x(button) == IF button.t = "GridButton" THEN button.x ELSE button.index
Button_abs_y(button) == IF button.t = "GridButton" THEN button.y + 1 ELSE 0

\* DeviceSpec::convert_message of the Launchpad S and Mini: presses and
\* releases become canvas messages, every other message None
convert_message(msg) ==
    IF msg.t \in { "Press", "Release" }
    THEN [t |-> msg.t, x |-> Button_abs_x(msg.button), y |-> Button_abs_y(msg.button)]
    ELSE Absent

\* The translating callback CanvasLayout::add wraps around the layout's own
translate_message(msg, place) ==
    LET g == to_global(msg.x, msg.y, place.rotation, place.x, place.y)
    IN  [t |-> msg.t, x |-> g[1], y |-> g[2]]

\* CanvasLayout::new_polling: sync_channel(50)
SYNC_CHANNEL_BOUND == 50

\* A bounded sender that gives up on a full queue
SyncSender_try_send(queue, msg) ==
    IF Len(queue) < SYNC_CHANNEL_BOUND
    THEN [queue |-> Append(queue, msg), hand |-> << >>]
    ELSE [queue |-> queue, hand |-> << >>]

\* SyncSender::send: the message enters the queue, or the sender waits with
\* the message in hand while the queue is full
SyncSender_send(queue, msg) ==
    IF Len(queue) < SYNC_CHANNEL_BOUND
    THEN [queue |-> Append(queue, msg), hand |-> << >>]
    ELSE [queue |-> queue, hand |-> << msg >>]

\* The most frames the transport delivers on the connection
MaxFrames == 52

PollFrames ==
    << << 144, 0, 127 >>, << 144, 0, 0 >>, << 176, 104, 127 >>,
       << 144, 120, 127 >>, << 176, 0, 3 >>, << 131, 9, 0 >> >>

\* The frames arrive as one of these cycles of three
PollPatterns ==
    { << 1, 2, 3 >>, << 3, 5, 1 >>, << 1, 6, 4 >> }

\* The k-th frame the transport delivers
PollFrame(p, k) == PollFrames[p.pattern[((k - 1) % 3) + 1]]

\* What the handle's callback makes of one frame before it sends it on:
\* from_port_polling sends decode_message's result, the layout poller sends
\* the converted and translated message and drops a frame that converts to
\* None
PollPipeline(p, frame) ==
    LET msg == decode_message(p.driver, frame, TRUE)
    IN  IF p.handle = "device" \/ msg = Fatal THEN msg
        ELSE IF convert_message(msg) = Absent THEN Absent
        ELSE translate_message(convert_message(msg), p.place)

PollPlaces ==
    { [rotation |-> "None", x |-> 0, y |-> 0], [rotation |-> "UpsideDown", x |-> 17, y |-> 9] }

PollInit ==
    /\ kind = "poll"
    /\ curr_state = << >>
    /\ new_state = << >>
    /\ curr_buf = << >>
    /\ new_buf = << >>
    /\ leds = << >>
    /\ cursor = 0
    /\ game = << >>
    /\ send_failed = FALSE
    /\ panicked = FALSE
    /\ last = Called("new", "Ok")
    /\ devices = << >>
    /\ coordinate_map = << >>
    /\ log = << >>
    /\ trip = << >>
    /\ call = << >>
    /\ mk2 = << >>
    /\ \E handle \in { "device", "layout" }, driver \in { "s", "mini" },
          pattern \in PollPatterns, place \in PollPlaces :
          /\ handle = "device" => place.rotation = "None"
          /\ port = [handle |-> handle, driver |-> driver, pattern |-> pattern,
                     place |-> place, arrived |-> 0, queue |-> << >>,
                     hand |-> << >>, crashed |-> FALSE, got |-> << >>,
                     ret |-> << >>]

\* The transport invokes the callback of from_port_polling with the next
\* frame: decode_message, then send on the unbounded channel
DeviceCallback ==
    /\ kind = "poll" /\ port.handle = "device"
    /\ ~port.crashed /\ port.arrived < MaxFrames
    /\ LET msg == PollPipeline(port, PollFrame(port, port.arrived + 1))
       IN  port' = IF msg = Fatal
                   THEN [port EXCEPT !.arrived = @ + 1, !.crashed = TRUE]
                   ELSE [port EXCEPT !.arrived = @ + 1, !.queue = Append(@, msg)]
    /\ UNCHANGED << canvas_vars, call, mk2, game >>

\* The transport invokes the callback of a device placed in a polling layout:
\* decode_message, convert_message, the translation, then send on the bounded
\* channel
LayoutCallback ==
    /\ kind = "poll" /\ port.handle = "layout"
    /\ ~port.crashed /\ port.arrived < MaxFrames /\ port.hand = << >>
    /\ LET msg == PollPipeline(port, PollFrame(port, port.arrived + 1))
           sent == SyncSender_send(port.queue, msg)
       IN  port' = IF msg = Fatal
                   THEN [port EXCEPT !.arrived = @ + 1, !.crashed = TRUE]
                   ELSE IF msg = Absent THEN [port EXCEPT !.arrived = @ + 1]
                   ELSE [port EXCEPT !.arrived = @ + 1, !.queue = sent.queue,
                                     !.hand = sent.hand]
    /\ UNCHANGED << canvas_vars, call, mk2, game >>

\* A waiting send goes through once the queue has room
SendResumes ==
    /\ kind = "poll" /\ port.hand # << >>
    /\ Len(port.queue) < SYNC_CHANNEL_BOUND
    /\ port' = [port EXCEPT !.queue = Append(@, port.hand[1]), !.hand = << >>]
    /\ UNCHANGED << canvas_vars, call, mk2, game >>

\* Receiver::recv on a queue that holds a message: the oldest leaves it
Receiver_recv(p) ==
    [p EXCEPT !.queue = Tail(@), !.got = Append(@, Head(p.queue)),
              !.ret = << Head(p.queue) >>]

\* Receiver::try_recv: the oldest message, or None from an empty queue
Receiver_try_recv(p) ==
    IF p.queue = << >> THEN [p EXCEPT !.ret = << Absent >>] ELSE Receiver_recv(p)

\* MsgPollingWrapper::recv waits until a message is queued
Recv ==
    /\ kind = "poll" /\ port.queue # << >>
    /\ port' = Receiver_recv(port)
    /\ UNCHANGED << canvas_vars, call, mk2, game >>

\* MsgPollingWrapper::try_recv
TryRecv ==
    /\ kind = "poll"
    /\ port' = Receiver_try_recv(port)
    /\ UNCHANGED << canvas_vars, call, mk2, game >>

\* One next() of MsgPollingWrapper::iter: Receiver::iter yields recv's results
IterNext ==
    /\ kind = "poll" /\ port.queue # << >>
    /\ port' = Receiver_recv(port)
    /\ UNCHANGED << canvas_vars, call, mk2, game >>

\* One next() of MsgPollingWrapper::iter_pending: Receiver::try_iter yields
\* try_recv's results and ends at the first None
IterPendingNext ==
    /\ kind = "poll"
    /\ port' = Receiver_try_recv(port)
    /\ UNCHANGED << canvas_vars, call, mk2, game >>

PollNext ==
    \/ DeviceCallback
    \/ LayoutCallback
    \/ SendResumes
    \/ Recv
    \/ TryRecv
    \/ IterNext
    \/ IterPendingNext

\* One connection feeding one polling handle
SpecPoll == PollInit /\ [][PollNext]_vars

\* The messages the callback has made of the first n frames, in arrival order
PollExpected[n \in 0 .. MaxFrames + 1] ==
    IF n = 0 THEN << >>
    ELSE LET msg == PollPipeline(port, PollFrame(port, n))
         IN  IF msg \in { Fatal, Absent } THEN PollExpected[n - 1]
             ELSE Append(PollExpected[n - 1], msg)

\* C11: what the consumer has obtained, followed by what is queued and by the
\* message a waiting send holds, is the sequence of the frames handed to the
\* callback so far, each as the handle's callback decodes it, in arrival
\* order; and an operation that returns a message returns the next of them
C11_PollingFifo ==
    kind = "poll" =>
      /\ port.got \o port.queue \o port.hand = PollExpected[port.arrived]
      /\ Len(port.queue) <= SYNC_CHANNEL_BOUND \/ port.handle = "device"
      /\ (port.ret # << >> /\ port.ret[1] # Absent) =>
            port.ret[1] = port.got[Len(port.got)]

\* The layout poller's queue is full, its callback waits with the 52nd
\* message in hand, and the consumer has obtained the first
C11_Witness ==
    /\ kind = "poll" /\ port.handle = "layout"
    /\ Len(port.queue) = SYNC_CHANNEL_BOUND
    /\ port.hand # << >> /\ Len(port.got) = 1
    /\ port.arrived = 52

----------------------------------------------------------------------------
(* MsgPollingWrapper::iter_for                                             *)

\* The clock stops here
MaxClock == 5

\* The longest duration asked for
MaxDuration == 3

\* The most messages that arrive
MaxArrivals == 2

\* The i-th message the callback thread queues
Arrival(i) == [t |-> "message", i |-> i]

\* Instant - Instant for a later right-hand side: zero on a toolchain whose
\* subtraction saturates, a panic on one whose subtraction checks
Instant_sub(a, b, saturating) ==
    IF a >= b THEN a - b ELSE IF saturating THEN 0 ELSE Overflowed

\* A handle with messages already queued or not, and a toolchain
IterForInit ==
    /\ kind = "iter_for"
    /\ curr_state = << >>
    /\ new_state = << >>
    /\ curr_buf = << >>
    /\ new_buf = << >>
    /\ leds = << >>
    /\ cursor = 0
    /\ game = << >>
    /\ send_failed = FALSE
    /\ panicked = FALSE
    /\ last = Called("new", "Ok")
    /\ devices = << >>
    /\ coordinate_map = << >>
    /\ log = << >>
    /\ trip = << >>
    /\ call = << >>
    /\ mk2 = << >>
    /\ \E saturating \in BOOLEAN, queued \in 0 .. 1 :
          port = [clock |-> 0, saturating |-> saturating,
                  queue |-> [i \in 1 .. queued |-> Arrival(i)], arrivals |-> queued,
                  pc |-> "none", deadline |-> 0, duration |-> 0,
                  entered |-> 0, had |-> FALSE, wake |-> 0,
                  raced |-> FALSE, returns |-> << >>]

\* Time passes; a timed wait ends at its wake-up time at the latest
Tick ==
    /\ kind = "iter_for" /\ port.clock < MaxClock
    /\ ~(port.pc = "waiting" /\ port.clock >= port.wake)
    /\ port' = [port EXCEPT !.clock = @ + 1,
                            !.raced = @ \/ port.pc = "checked"]
    /\ UNCHANGED << canvas_vars, call, mk2, game >>

\* The callback thread queues a message
Arrive ==
    /\ kind = "iter_for" /\ port.arrivals < MaxArrivals
    /\ port' = [port EXCEPT !.arrivals = @ + 1, !.queue = Append(@, Arrival(port.arrivals + 1))]
    /\ UNCHANGED << canvas_vars, call, mk2, game >>

\* iter_for(duration): deadline: Instant::now() + duration
IterFor ==
    /\ kind = "iter_for" /\ port.pc = "none"
    /\ \E duration \in 0 .. MaxDuration :
          port' = [port EXCEPT !.pc = "idle", !.duration = duration,
                               !.deadline = port.clock + duration]
    /\ UNCHANGED << canvas_vars, call, mk2, game >>

\* One return of next(): what it returned, when it was entered, when it
\* returned and whether a message was queued when it was entered
IterForReturn(p, ret) ==
    Append(p.returns, [ret |-> ret, entered |-> p.entered, at |-> p.clock,
                       had |-> p.had])

\* IterFor::next, first clock reading: None once now >= deadline
NextCheck ==
    /\ kind = "iter_for" /\ port.pc = "idle"
    /\ LET p == [port EXCEPT !.entered = port.clock, !.had = port.queue # << >>,
                             !.raced = FALSE]
       IN  port' = IF p.clock >= p.deadline
                   THEN [p EXCEPT !.pc = "ended", !.returns = IterForReturn(p, Absent)]
                   ELSE [p EXCEPT !.pc = "checked"]
    /\ UNCHANGED << canvas_vars, call, mk2, game >>

\* IterFor::next, second clock reading:
\* recv_timeout(self.deadline - Instant::now()) returns a queued message at
\* once and else waits for the timeout
NextRecvTimeout ==
    /\ kind = "iter_for" /\ port.pc = "checked"
    /\ LET timeout == Instant_sub(port.deadline, port.clock, port.saturating)
       IN  port' = IF timeout = Overflowed
                   THEN [port EXCEPT !.pc = "ended",
                                     !.returns = IterForReturn(port, Fatal)]
                   ELSE IF port.queue # << >>
                   THEN [port EXCEPT !.pc = "idle", !.queue = Tail(@),
                                     !.returns = IterForReturn(port, Head(port.queue))]
                   ELSE [port EXCEPT !.pc = "waiting", !.wake = port.clock + timeout]
    /\ UNCHANGED << canvas_vars, call, mk2, game >>

\* recv_timeout returns: the message that arrived, or at the wake-up time
\* Err(Timeout), which .ok() turns into None
NextWake ==
    /\ kind = "iter_for" /\ port.pc = "waiting"
    /\ port.queue # << >> \/ port.clock >= port.wake
    /\ port' = IF port.queue # << >>
               THEN [port EXCEPT !.pc = "idle", !.queue = Tail(@),
                                 !.returns = IterForReturn(port, Head(port.queue))]
               ELSE [port EXCEPT !.pc = "ended",
                                 !.returns = IterForReturn(port, Absent)]
    /\ UNCHANGED << canvas_vars, call, mk2, game >>

IterForNext ==
    \/ Tick
    \/ Arrive
    \/ IterFor
    \/ NextCheck
    \/ NextRecvTimeout
    \/ NextWake

\* One consumer iterating with iter_for while messages arrive
SpecIterFor == IterForInit /\ [][IterForNext]_vars

\* next() returned a message
Yielded(r) == r.ret.t = "message"

\* C12: an iterator of iter_for(d) yields no message after its deadline and
\* no wait of next() lasts beyond the deadline; with d = 0 it yields nothing
\* even with a message queued; and a next() entered before the deadline of a
\* d > 0 with a message queued yields a message
C12_IterForDeadline ==
    kind = "iter_for" =>
      /\ \A i \in 1 .. Len(port.returns) :
            /\ Yielded(port.returns[i]) => port.returns[i].at <= port.deadline
            /\ port.duration = 0 => port.returns[i].ret = Absent
            /\ (port.returns[i].had /\ port.returns[i].entered < port.deadline) =>
                  Yielded(port.returns[i])
      /\ port.pc = "waiting" =>
            (port.clock < port.deadline \/ port.wake <= port.clock)

----------------------------------------------------------------------------
(* Pure functions of the canvas colors and of the MK2 and Mini MK3 codes   *)

\* The components quantize is called with, in 64ths: -13/64 (for -0.2), 0,
\* 0.125, 0.5, 1.0, 1.5 and 3.125
QuantizeComponents == { -13, 0, 8, 32, 64, 96, 200 }

\* The ranges quantize is called with
QuantizeRanges == { 1, 2, 3, 4, 64, 255 }

QuantizeCalls ==
    { Call("quantize", [color |-> MkColor(r, g, b), range |-> range]) :
        r \in QuantizeComponents, g \in QuantizeComponents,
        b \in QuantizeComponents, range \in QuantizeRanges }

\* The buttons a driver's encode_button accepts
CodedButtons(driver) ==
    { GridButton(x, y) : x \in 0 .. 8, y \in 0 .. 7 }
      \cup { ControlButton(i) : i \in 0 .. (IF driver = "mk2" THEN 7 ELSE 15) }

RoundTripCalls ==
    { Call("round_trip", [driver |-> driver, button |-> button, overflow_checks |-> oc]) :
        driver \in { "mk2", "mini_mk3" }, button \in CodedButtons("mini_mk3"),
        oc \in BOOLEAN }
      \ { Call("round_trip", [driver |-> "mk2", button |-> ControlButton(i),
                              overflow_checks |-> oc]) : i \in 8 .. 15, oc \in BOOLEAN }

\* A driver's encode_button
Driver_encode_button(driver, button) ==
    IF driver = "mk2" THEN Mk2_encode_button(button) ELSE encode_button(button)

\* The button a driver decodes a code to: the MK2 decodes a note with
\* decode_grid_button and a controller 104..=111 as a control button, the
\* Mini MK3 a note with decode_grid_button and a controller with
\* decode_control_button
Driver_decode_button(driver, status, code, overflow_checks) ==
    IF status = 144 THEN decode_grid_button_10(code, overflow_checks)
    ELSE IF driver = "mk2"
        THEN (IF code \in 104 .. 111 THEN ControlButton(code - 104) ELSE PanicButton)
    ELSE decode_control_button(code, overflow_checks)

PureInit ==
    /\ kind = "pure"
    /\ curr_state = << >>
    /\ new_state = << >>
    /\ curr_buf = << >>
    /\ new_buf = << >>
    /\ leds = << >>
    /\ cursor = 0
    /\ game = << >>
    /\ send_failed = FALSE
    /\ panicked = FALSE
    /\ last = Called("new", "Ok")
    /\ devices = << >>
    /\ coordinate_map = << >>
    /\ log = << >>
    /\ trip = << >>
    /\ port = << >>
    /\ mk2 = << >>
    /\ \/ call \in QuantizeCalls
       \/ call \in RoundTripCalls

\* Color::quantize
QuantizeCall ==
    /\ Calling("quantize")
    /\ Returns(Quantize(call.arg.color, call.arg.range))
    /\ UNCHANGED << canvas_vars, port, mk2, game >>

\* encode_button, then the decoding of its code as the note or the controller
\* the device sends the button as
RoundTrip ==
    /\ Calling("round_trip")
    /\ LET code == Driver_encode_button(call.arg.driver, call.arg.button)
           status == IF call.arg.button.t = "GridButton" THEN 144 ELSE 176
       IN  Returns([code |-> code,
                    decoded |-> Driver_decode_button(call.arg.driver, status, code,
                                                     call.arg.overflow_checks)])
    /\ UNCHANGED << canvas_vars, port, mk2, game >>

PureNext ==
    \/ QuantizeCall
    \/ RoundTrip

\* Every pure function on every input
SpecPure == PureInit /\ [][PureNext]_vars

\* Color{1.5, 0.5, -0.2}, the negative component as -13/64
QuantizeExample == MkColor(96, 32, -13)

\* Every component quantize returns lies in 0 .. range - 1
QuantizeInRange ==
    Returned("quantize") =>
        \A i \in 1 .. 3 : call.ret[i] \in 0 .. call.arg.range - 1

\* C21: every component quantize returns lies in 0 .. range - 1, and
\* Color{1.5, 0.5, -0.2}.quantize(4) = (3, 1, 0): the clamp scales 0.5 by
\* 1/1.5 to a third before the components are floor-scaled by 4
C21_QuantizeScales ==
    /\ QuantizeInRange
    /\ (Returned("quantize") /\ call.arg = [color |-> QuantizeExample, range |-> 4])
          => call.ret = << 3, 1, 0 >>

\* Every component quantize returns lies in 0 .. range - 1, and
\* Color{1.5, 0.5, -0.2}.quantize(4) = (3, 2, 0)
C21_QuantizeExample ==
    /\ QuantizeInRange
    /\ (Returned("quantize") /\ call.arg = [color |-> QuantizeExample, range |-> 4])
          => call.ret = << 3, 2, 0 >>

\* quantize(4) has returned for Color{1.5, 0.5, -0.2}
C21_Witness ==
    /\ Returned("quantize")
    /\ call.arg = [color |-> QuantizeExample, range |-> 4]
    /\ call.ret[1] = 3

\* The button under the finger: the Mini MK3's control buttons 8..=15 are its
\* right-side buttons, grid buttons (8, 0..=7)
Physical(driver, button) ==
    IF driver = "mini_mk3" /\ button.t = "ControlButton" /\ button.index >= 8
    THEN GridButton(8, button.index - 8) ELSE button

\* C29: on the MK2 and the Mini MK3 a grid button (x, y) with x in 0..=8 and
\* y in 0..=7 encodes to 10 * (8 - y) + x + 1 and its code decodes to it; a
\* Mini MK3 control button i in 0..=7 encodes to 91 + i and decodes to itself,
\* a control button 8 + k encodes to the code of grid button (8, k) and
\* decodes to that grid button; and two buttons of one driver with the same
\* code are the same physical button
C29_CodesRoundTrip ==
    Returned("round_trip") =>
      LET button == call.arg.button
          driver == call.arg.driver
      IN  /\ call.ret.decoded = Physical(driver, button)
          /\ button.t = "GridButton" => call.ret.code = 10 * (8 - button.y) + button.x + 1
          /\ (driver = "mini_mk3" /\ button.t = "ControlButton") =>
                call.ret.code = IF button.index <= 7 THEN 91 + button.index
                                ELSE encode_button(GridButton(8, button.index - 8))
          /\ \A other \in CodedButtons(driver) :
                Driver_encode_button(driver, other) = call.ret.code
                    => Physical(driver, other) = Physical(driver, button)

\* The Mini MK3's control button 15 is encoded as 19 and decoded as the grid
\* button (8, 7)
C29_Witness ==
    /\ Returned("round_trip")
    /\ call.arg.driver = "mini_mk3" /\ call.arg.button = ControlButton(15)
    /\ call.ret = [code |-> 19, decoded |-> GridButton(8, 7)]

----------------------------------------------------------------------------
(* A flush that returns an error                                           *)

\* C27: a flush that returns Err leaves the displayed color of every pad,
\* as get reports it, and every pending color as they were before the call
C27_FailedFlushKeepsDisplayed ==
    [][ (last'.op = "flush" /\ last'.ret = "Err") =>
            /\ \A c \in Cells :
                  get(kind, Pad(c[1], c[2]))' = get(kind, Pad(c[1], c[2]))
            /\ Pending' = Pending ]_vars

----------------------------------------------------------------------------
(* The flush strategy of the original controller and the Mini              *)

\* The i-th rapid-update message that streams the pending colors in the
\* device's scan order
RapidInScanOrder(k, pending, i) ==
    set_button_rapid(k, convert_color(pending[ScanOrder[2 * i - 1]]), DBB_Copy,
                        convert_color(pending[ScanOrder[2 * i]]), DBB_Copy)

\* A message of Output::set_button
IsLight(msg) == msg[1] \in { 144, 176 }

\* What a flush of the canvas as it is sends, when every send succeeds
FlushStrategy(k) ==
    LET changes == ChangeList(k, curr_state, new_state)
        plan == IF changes # << >> THEN Spec_flush(k, new_state, changes) ELSE NoPlan
    IN  /\ ~plan.panic
        /\ Len(plan.wire) <= 41
        /\ IF Len(changes) > 40
           THEN /\ Len(plan.wire) = 41
                /\ \A i \in 1 .. 40 : plan.wire[i] = RapidInScanOrder(k, new_state, i)
                /\ IsLight(plan.wire[41])
           ELSE /\ Len(plan.wire) = Len(changes)
                /\ \A i \in 1 .. Len(changes) :
                      /\ IsLight(plan.wire[i])
                      /\ plan.wire[i] =
                            light(from_abs(changes[i][1], changes[i][2]),
                                  Color_new(changes[i][3][1], changes[i][3][2]))

\* C28: on the original controller and the Mini a flush of more than 40
\* changed cells sends the 40 rapid-update messages that carry the pending
\* colors of all 80 cells in scan order and then one light message; a flush
\* of 40 or fewer changed cells sends one light message per changed cell and
\* no rapid-update message; no flush sends more than 41 messages
C28_FlushStrategy ==
    kind \in { "midi1", "mini" } => FlushStrategy(kind)

----------------------------------------------------------------------------
(* The Minesweeper example: uncover                                        *)

\* x.saturating_sub(1) ..= (x + 1).min(7) without the lower neighbor
NeighborRange_upwards(x) == x .. (IF x + 1 < 7 THEN x + 1 ELSE 7)

\* x.saturating_sub(1) ..= (x + 1).min(7), the range of both neighbor loops
NeighborRange(x) == (IF x = 0 THEN 0 ELSE x - 1) .. (IF x + 1 < 7 THEN x + 1 ELSE 7)

\* The cells the two nested neighbor loops visit, in their order: x outer, y
\* inner, the cell itself skipped
Neighbors(x, y) ==
    LET xs == NeighborRange(x)
        ys == NeighborRange(y)
        width == Cardinality(ys)
        lox == CHOOSE m \in xs : \A n \in xs : m <= n
        loy == CHOOSE m \in ys : \A n \in ys : m <= n
        all == [i \in 1 .. Cardinality(xs) * width |->
                   << lox + ((i - 1) \div width), loy + ((i - 1) % width) >>]
    IN  SelectSeq(all, LAMBDA c : c # << x, y >>)

\* num_neighbor_mines
NeighborMines(mines, x, y) ==
    Cardinality({ i \in DOMAIN Neighbors(x, y) :
                    \E m \in DOMAIN mines : mines[m] = Neighbors(x, y)[i] })

\* The cells of the board
Board8 == (0 .. 7) \X (0 .. 7)

\* What one step of the example did: the event, its cell and press instant,
\* the number of lighting commands it sent, and for a timer whether it toggled
\* the flag, whether its press was still the recorded one, and whether a
\* release of its cell had arrived since its press
Did(op, cell, t, lit, toggled, matched, released) ==
    [op |-> op, cell |-> cell, t |-> t, lit |-> lit, toggled |-> toggled,
     matched |-> matched, released |-> released]

\* State, the sleeping hold timers, the frames of uncover on the call stack
\* (cell and position in the neighbor loop, 0 before the loop), the caller of
\* uncover and the number of clock readings so far
State(mines, uncovered, stack, caller) ==
    [pc |-> "handle", mines |-> mines, uncovered |-> uncovered, flagged |-> { },
     currently_pressed |-> { }, timers |-> { }, game_won |-> FALSE,
     stack |-> stack, caller |-> caller, now |-> 0,
     did |-> Did("main", << 0, 0 >>, 0, 0, FALSE, FALSE, FALSE)]

\* The variables the example does not use
NoCanvas ==
    /\ kind = "minesweeper"
    /\ curr_state = << >>
    /\ new_state = << >>
    /\ curr_buf = << >>
    /\ new_buf = << >>
    /\ leds = << >>
    /\ cursor = 0
    /\ send_failed = FALSE
    /\ panicked = FALSE
    /\ last = Called("new", "Ok")
    /\ devices = << >>
    /\ coordinate_map = << >>
    /\ log = << >>
    /\ trip = << >>
    /\ port = << >>
    /\ mk2 = << >>
    /\ call = << >>

\* The frame uncover is running in
Top == game.stack[Len(game.stack)]

\* uncover returns Ok; back in handle, the win test
UncoverReturn(g) ==
    LET stack == SubSeq(g.stack, 1, Len(g.stack) - 1)
    IN  IF stack = << >> /\ g.caller = "handle"
        THEN [g EXCEPT !.stack = stack,
                       !.game_won = (Len(g.uncovered) = 64 - Len(g.mines))]
        ELSE [g EXCEPT !.stack = stack]

\* uncover up to the neighbor loop: the early return, the count, the light and
\* the push
UncoverEnter ==
    /\ kind = "minesweeper"
    /\ game.stack # << >>
    /\ Top.i = 0
    /\ LET cell == << Top.x, Top.y >>
           did(lit) == Did("uncover", cell, 0, lit, FALSE, FALSE, FALSE)
       IN  IF \E i \in DOMAIN game.uncovered : game.uncovered[i] = cell
           THEN game' = UncoverReturn([game EXCEPT !.did = did(0)])
           ELSE IF NeighborMines(game.mines, Top.x, Top.y) = 0
           THEN game' = [game EXCEPT !.uncovered = Append(@, cell),
                                     !.stack[Len(game.stack)].i = 1,
                                     !.did = did(1)]
           ELSE game' = UncoverReturn([game EXCEPT !.uncovered = Append(@, cell),
                                                   !.did = did(1)])
    /\ UNCHANGED << canvas_vars, port, call, mk2 >>

\* One round of the loop that uncovers the neighbors: the call on the next
\* neighbor, or the return after the last
UncoverNeighbor ==
    /\ kind = "minesweeper"
    /\ game.stack # << >>
    /\ Top.i > 0
    /\ LET neighbors == Neighbors(Top.x, Top.y)
           did == Did("neighbor", << Top.x, Top.y >>, 0, 0, FALSE, FALSE, FALSE)
       IN  IF Top.i > Len(neighbors)
           THEN game' = UncoverReturn([game EXCEPT !.did = did])
           ELSE game' = [game EXCEPT
                    !.stack = Append([@ EXCEPT ![Len(game.stack)].i = Top.i + 1],
                                     [x |-> neighbors[Top.i][1],
                                      y |-> neighbors[Top.i][2], i |-> 0]),
                    !.did = did]
    /\ UNCHANGED << canvas_vars, port, call, mk2 >>

\* The boards uncover is called on: no mine, one mine, a block of ten, ten
\* scattered, a wall that cuts the board in two
Boards ==
    { << >>,
      << << 3, 3 >> >>,
      << << 0, 0 >>, << 1, 0 >>, << 2, 0 >>, << 3, 0 >>, << 4, 0 >>,
         << 0, 1 >>, << 1, 1 >>, << 2, 1 >>, << 3, 1 >>, << 4, 1 >> >>,
      << << 0, 0 >>, << 7, 7 >>, << 2, 5 >>, << 5, 2 >>, << 3, 3 >>,
         << 6, 0 >>, << 0, 6 >>, << 4, 7 >>, << 7, 3 >>, << 1, 2 >> >>,
      << << 0, 4 >>, << 1, 4 >>, << 2, 4 >>, << 3, 4 >>, << 4, 4 >>,
         << 5, 4 >>, << 6, 4 >>, << 7, 4 >> >> }

\* The cells uncover is called on: corners, edges and inner cells
Origins == { 0, 3, 7 } \X { 0, 4, 7 }

\* uncover called on a cell of a board, with nothing uncovered yet or with
\* two cells uncovered
UncoverInit ==
    /\ NoCanvas
    /\ \E mines \in Boards, origin \in Origins,
          uncovered \in { << >>, << << 7, 7 >>, << 6, 6 >> >> } :
            game = State(mines, uncovered,
                         << [x |-> origin[1], y |-> origin[2], i |-> 0] >>, "call")

UncoverNext ==
    \/ UncoverEnter
    \/ UncoverNeighbor

SpecUncover == UncoverInit /\ [][UncoverNext]_vars

\* uncover is one thread: it runs on until it returns
SpecUncoverFair == SpecUncover /\ WF_vars(UncoverNext)

Adjacent(a, b) ==
    a # b /\ a[1] - b[1] \in -1 .. 1 /\ a[2] - b[2] \in -1 .. 1

\* The cells of the board with no mine next to them
ZeroCells(mines) ==
    { c \in Board8 : \A m \in DOMAIN mines : ~Adjacent(c, mines[m]) }

\* The cells of zero joined to a cell of region by 8-neighbour steps over zero
RECURSIVE ZeroRegion(_, _)
ZeroRegion(zero, region) ==
    LET grown == { c \in zero : c \in region \/ \E r \in region : Adjacent(c, r) }
    IN  IF grown = region THEN region
        ELSE CHOOSE joined \in { ZeroRegion(zero, g) : g \in { grown } } : TRUE

\* The cells of a sequence
CellsOf(seq) == { seq[i] : i \in DOMAIN seq }

\* uncover has returned to the caller that called it on a cell of its choice
UncoverReturned == kind = "minesweeper" /\ game.caller = "call" /\ game.stack = << >>

\* The cells uncover had found uncovered when it was called: the first two of
\* the list or none
UncoveredBefore ==
    IF Len(game.uncovered) >= 2 /\ SubSeq(game.uncovered, 1, 2) = << << 7, 7 >>, << 6, 6 >> >>
    THEN { << 7, 7 >>, << 6, 6 >> } ELSE { }

\* No cell is twice in the uncovered list; a call of uncover on an uncovered
\* cell lights nothing, a call that lights a cell makes it the last of the
\* list; and once uncover has returned from a call with nothing uncovered on a
\* cell with no mine next to it, the list holds exactly the zero-count cells
\* joined to that cell and the cells next to them
UncoverFloods ==
    /\ Cardinality(CellsOf(game.uncovered)) = Len(game.uncovered)
    /\ game.did.op = "uncover" =>
          IF game.did.lit = 1
          THEN game.uncovered[Len(game.uncovered)] = game.did.cell
          ELSE game.did.lit = 0 /\ game.did.cell \in CellsOf(game.uncovered)
    /\ (/\ UncoverReturned
        /\ game.uncovered # << >>
        /\ UncoveredBefore = { }
        /\ game.uncovered[1] \in ZeroCells(game.mines)) =>
          \E zero \in { ZeroCells(game.mines) } :
            \E region \in { ZeroRegion(zero, { game.uncovered[1] }) } :
              CellsOf(game.uncovered) =
                  region \cup { c \in Board8 : \E r \in region : Adjacent(c, r) }

\* C25: uncover returns on every board, the board without mines included;
\* it adds no cell twice to the uncovered list and lights no uncovered cell
\* again; started on a cell with no mine next to it, it uncovers exactly the
\* zero-count cells joined to that cell by 8-neighbour steps and the cells
\* next to them
C25_UncoverFloods ==
    /\ [](kind = "minesweeper" => UncoverFloods)
    /\ <>UncoverReturned

\* On the board without mines, uncover called on (0, 0) has returned with all
\* 64 cells uncovered
C25_Witness ==
    /\ UncoverReturned
    /\ game.mines = << >>
    /\ Len(game.uncovered) = 64
    /\ game.uncovered[1] = << 0, 0 >>

----------------------------------------------------------------------------
(* The Minesweeper example: generate_mines                                 *)

\* generate_mines(10), the call in main
MineCount == 10

\* The random source: the cell the k-th round of the loop draws. A source is
\* a seed, a stride and the number of rounds it repeats each cell; its first
\* generate_range(0..=7) of a round gives x, its second gives y.
Drawn(source, k) ==
    LET index == (source.seed + source.stride * (k \div source.repeat)) % 64
    IN  << index % 8, index \div 8 >>

\* The rounds after which a source repeats itself
Period(source) == 64 * source.repeat

\* Sources that give one cell for ever, 2, 4, 8, 16 or all 64 cells
Sources ==
    [seed : { 0, 27, 63 }, stride : { 0, 1, 4, 7, 8, 16, 32 }, repeat : { 1, 2 }]

\* A push that does not look whether the cell is among the mines
PushAlways(mines, cell) == Append(mines, cell)

\* if !mines.iter().any(|&m| m == (x, y)) { mines.push((x, y)) }
PushIfAbsent(mines, cell) ==
    IF \E i \in DOMAIN mines : mines[i] = cell THEN mines ELSE Append(mines, cell)

MinesInit ==
    /\ NoCanvas
    /\ \E source \in Sources :
          game = [pc |-> "generate_mines", n |-> MineCount, mines |-> << >>,
                  source |-> source, k |-> 0]

\* One round of the while loop
GenerateDraw ==
    /\ kind = "minesweeper"
    /\ game.pc = "generate_mines"
    /\ Len(game.mines) < game.n
    /\ game' = [game EXCEPT !.mines = PushIfAbsent(@, Drawn(game.source, game.k)),
                            !.k = (game.k + 1) % Period(game.source)]
    /\ UNCHANGED << canvas_vars, port, call, mk2 >>

\* The loop ends and generate_mines returns mines
GenerateReturn ==
    /\ kind = "minesweeper"
    /\ game.pc = "generate_mines"
    /\ Len(game.mines) >= game.n
    /\ game' = [game EXCEPT !.pc = "returned"]
    /\ UNCHANGED << canvas_vars, port, call, mk2 >>

MinesNext ==
    \/ GenerateDraw
    \/ GenerateReturn

SpecMines == MinesInit /\ [][MinesNext]_vars

\* generate_mines is one thread: it runs on until it returns
SpecMinesFair == SpecMines /\ WF_vars(MinesNext)

MinesReturned == kind = "minesweeper" /\ game.pc = "returned"

\* The source will draw a cell that is not among the mines yet
FreshAhead ==
    \E j \in 0 .. Period(game.source) - 1 :
        Drawn(game.source, game.k + j) \notin CellsOf(game.mines)

\* C26: what generate_mines(10) returns is exactly 10 cells, no two the same,
\* each with x and y in 0..=7, whatever the source draws; and it returns if
\* the source, as long as the loop runs, will always draw a cell not yet
\* among the mines
C26_GenerateMines ==
    /\ [](MinesReturned =>
            /\ Len(game.mines) = 10
            /\ Cardinality(CellsOf(game.mines)) = 10
            /\ CellsOf(game.mines) \subseteq Board8)
    /\ [](kind = "minesweeper" /\ game.pc = "generate_mines"
            /\ Len(game.mines) < game.n => FreshAhead) => <>MinesReturned

\* generate_mines has returned after rounds that drew a cell again
C26_Witness ==
    /\ MinesReturned
    /\ game.source.repeat = 2
    /\ game.k = 19

----------------------------------------------------------------------------
(* The Minesweeper example: handle and the hold timers                     *)

\* The presses one game takes
MaxPresses == 2

\* The board of the game: ten mines around the corner cell (0, 0), which no
\* uncover of another cell reaches
GameMines ==
    << << 1, 0 >>, << 2, 0 >>, << 3, 0 >>, << 0, 1 >>, << 1, 1 >>,
       << 2, 1 >>, << 3, 1 >>, << 0, 2 >>, << 1, 2 >>, << 2, 2 >> >>

\* The buttons the player uses: an open cell, the corner cell, a mine and a
\* button of the right column, which the MK2 reports as GridButton { x: 8, .. }
Pressable == { << 7, 7 >>, << 0, 0 >>, << 1, 1 >>, << 8, 3 >> }

GameInit ==
    /\ NoCanvas
    /\ game = State(GameMines, << >>, << >>, "handle")

\* handle and every hold timer lock the State; uncover runs with the lock held
Unlocked == kind = "minesweeper" /\ game.pc = "handle" /\ game.stack = << >>

\* currently_pressed.remove(&(x, y))
Removed(currently_pressed, cell) == { p \in currently_pressed : p[1] # cell }

\* currently_pressed.get(&(x, y)), 0 for None
PressedAt(currently_pressed, cell) ==
    IF \E p \in currently_pressed : p[1] = cell
    THEN (CHOOSE p \in currently_pressed : p[1] = cell)[2]
    ELSE 0

\* handle on Press of a grid button: the gate, then the record of the press
\* instant and the hold timer
HandlePress(cell) ==
    /\ Unlocked
    /\ IF game.game_won
       THEN game' = [game EXCEPT !.did = Did("press", cell, 0, 0, FALSE, FALSE, FALSE)]
       ELSE /\ game.now < MaxPresses
            /\ \E press_time \in { game.now + 1 } :
                 game' = [game EXCEPT
                    !.now = press_time,
                    !.currently_pressed =
                        Removed(@, cell) \cup { << cell, press_time >> },
                    !.timers = @ \cup { [cell |-> cell, t |-> press_time,
                                         released |-> FALSE] },
                    !.did = Did("press", cell, press_time, 0, FALSE, FALSE, FALSE)]
    /\ UNCHANGED << canvas_vars, port, call, mk2 >>

\* The hold timers, each told that a release of the cell has arrived
Told(timers, cell) ==
    { IF timer.cell = cell THEN [timer EXCEPT !.released = TRUE] ELSE timer :
        timer \in timers }

\* handle on Release of a grid button: the gate, the record, the mine or the
\* call of uncover
HandleRelease(cell) ==
    /\ Unlocked
    /\ LET did(lit) == Did("release", cell, 0, lit, FALSE, FALSE, FALSE)
           told == [game EXCEPT !.timers = Told(@, cell)]
       IN  IF game.game_won \/ PressedAt(game.currently_pressed, cell) = 0
           THEN game' = [told EXCEPT !.did = did(0)]
           ELSE IF \E m \in DOMAIN game.mines : game.mines[m] = cell
           THEN game' = [told EXCEPT !.currently_pressed = Removed(@, cell),
                                     !.did = did(Len(game.mines))]
           ELSE game' = [told EXCEPT !.currently_pressed = Removed(@, cell),
                                     !.stack = << [x |-> cell[1], y |-> cell[2],
                                                   i |-> 0] >>,
                                     !.did = did(0)]
    /\ UNCHANGED << canvas_vars, port, call, mk2 >>

\* The thread spawned by a press, after its sleep of 400 ms
TimerExpires(timer) ==
    /\ Unlocked
    /\ timer \in game.timers
    /\ LET matched == PressedAt(game.currently_pressed, timer.cell) = timer.t
       IN  game' = [game EXCEPT
              !.timers = @ \ { timer },
              !.currently_pressed = Removed(@, timer.cell),
              !.flagged = IF ~matched THEN @
                          ELSE IF timer.cell \in @ THEN @ \ { timer.cell }
                          ELSE @ \cup { timer.cell },
              !.did = Did("timer", timer.cell, timer.t, IF matched THEN 1 ELSE 0,
                          matched, matched, timer.released)]
    /\ UNCHANGED << canvas_vars, port, call, mk2 >>

GameNext ==
    \/ \E cell \in Pressable : HandlePress(cell)
    \/ \E cell \in Pressable : HandleRelease(cell)
    \/ \E timer \in game.timers : TimerExpires(timer)
    \/ UncoverEnter
    \/ UncoverNeighbor

SpecGame == GameInit /\ [][GameNext]_vars

----------------------------------------------------------------------------
(* Properties of the Minesweeper game                                      *)

InGame == kind = "minesweeper" /\ game.pc = "handle" /\ game.caller = "handle"

\* C22: a hold timer toggles the flag of its cell only if no release of that
\* cell has arrived between the press that started the timer and its expiry
C22_ToggleOnlyIfHeld ==
    (InGame /\ game.did.op = "timer" /\ game.did.toggled) => ~game.did.released

\* C23: a hold timer that wakes and finds that the recorded press instant of
\* its cell is not the one it captured changes neither the flagged set nor
\* the currently-pressed record
C23_StaleTimerHasNoEffect ==
    [][ (InGame /\ game'.did.op = "timer" /\ ~game'.did.matched) =>
            /\ game'.flagged = game.flagged
            /\ game'.currently_pressed = game.currently_pressed ]_vars

\* C24: once the won flag is set, no event changes the uncovered list or the
\* flagged set or sends a lighting command; the flag is set only by an
\* uncover that leaves 64 - mines cells uncovered; hitting a mine changes
\* nothing but the record of the press
C24_WonGatesInput ==
    [][ InGame =>
            /\ game.game_won =>
                  /\ game'.game_won
                  /\ game'.uncovered = game.uncovered
                  /\ game'.flagged = game.flagged
                  /\ game'.did.lit = 0
            /\ (~game.game_won /\ game'.game_won) =>
                  /\ game'.did.op \in { "uncover", "neighbor" }
                  /\ Len(game'.uncovered) = 64 - Len(game.mines)
            /\ (game'.did.op = "release" /\ game'.did.lit > 0) =>
                  /\ game'.game_won = game.game_won
                  /\ game'.uncovered = game.uncovered
                  /\ game'.flagged = game.flagged
                  /\ game'.stack = << >> ]_vars

\* C30: the uncovered list holds no mine, no cell twice and no cell outside
\* the 8x8 board, and the won flag is set only when every cell of the board
\* that is not a mine is uncovered
C30_WinIsSound ==
    InGame =>
        /\ CellsOf(game.uncovered) \cap CellsOf(game.mines) = { }
        /\ Cardinality(CellsOf(game.uncovered)) = Len(game.uncovered)
        /\ CellsOf(game.uncovered) \subseteq Board8
        /\ game.game_won => Board8 \ CellsOf(game.mines) \subseteq CellsOf(game.uncovered)
====
